---- MODULE Spec2Model ----
(***************************************************************************)
(* A model of PyAutoLens' prior mapping engine (src/auto_lens/prior.py)    *)
(* and of its analysis pipeline (src/auto_lens/analysis/pipeline.py).      *)
(*                                                                         *)
(* Numbers: a unit of the hypercube is an integer number of tenths (5 is   *)
(* 0.5); a physical value is a record [fin, x] where x counts thousandths  *)
(* (x = 1000 is 1.0) and fin = FALSE stands for an infinity of sign x.     *)
(* Objects live in heaps (sequences in creation order) and are referred to *)
(* by their index, so that two objects with equal fields stay two objects. *)
(***************************************************************************)
EXTENDS Integers, Sequences, FiniteSets, TLC

VARIABLES
    config,          \* the .ini files of the config folder (read-only)
    parser,          \* Config.parser: the options read so far
    prior_number,    \* the module-level counter prior_number
    heap,            \* every Prior object created, in creation order
    tuples,          \* every TuplePrior object created, in creation order
    mapper,          \* ClassMap.__dict__: name -> PriorModel or None
    reconstruction,  \* outcome of the last reconstruction_for_vector call
    lastOp,          \* the last operation carried out on the mapper
    pipe,            \* MainPipeline.run: its locals and the calls it made
    generalized,     \* a generalized Analysis: its attributes and its last run
    lookup,          \* the last Config.get_for_nearest_ancestor call and its outcome
    evaluation,      \* a UniformPrior on its own and its last value_for call
    concurrent,      \* two fitness_function calls in flight and the Runs they are on
    constructed      \* the analyses constructed, their model mappers, the last optimizer call

vars == <<config, parser, prior_number, heap, tuples, mapper, reconstruction,
          lastOp, pipe, generalized, lookup, evaluation, concurrent, constructed>>

mapperVars == <<config, parser, prior_number, heap, tuples, mapper,
                reconstruction, lastOp>>

-----------------------------------------------------------------------------
(* Bounds of the model *)

\* Prior objects created in one run of the model
MaxPriors == 4

\* how much longer than `priors` a vector handed to the mapper may be
MaxExtra == 1

-----------------------------------------------------------------------------
(* Values *)

None == [t |-> "none", ref |-> 0]

Num(x) == [fin |-> TRUE, x |-> x]

Inf(sign) == [fin |-> FALSE, x |-> sign]

\* the units the optimizer hands over, in tenths: 0.0, 0.2, 0.5, 1.0
Units == {0, 2, 5, 10}

\* math.sqrt(2) * erfinv(2 * unit - 1) in millionths, for the units above
\* (-0.8416212... at 0.2); scipy's erfinv gives -inf at -1 and +inf at 1
ErfinvTerm(unit) ==
    CASE unit = 0 -> Inf(-1)
      [] unit = 2 -> Num(-841621)
      [] unit = 5 -> Num(0)
      [] unit = 10 -> Inf(1)

\* a UniformPrior.value_for that leaves the lower limit out
UniformValueForNoOffset(p, unit) ==
    Num(unit * 100 * (p.p2 - p.p1))

\* UniformPrior.value_for: lower_limit + unit * (upper_limit - lower_limit)
UniformValueFor(p, unit) ==
    Num(p.p1 * 1000 + unit * 100 * (p.p2 - p.p1))

\* a value in millionths read in thousandths, to the nearest
Thousandths(millionths) == (millionths + 500) \div 1000

\* GaussianPrior.value_for: mean + sigma * sqrt(2) * erfinv(2 * unit - 1)
GaussianValueFor(p, unit) ==
    LET e == ErfinvTerm(unit) IN
    IF e.fin THEN Num(Thousandths(p.p1 * 1000000 + p.p2 * e.x))
    ELSE IF p.p2 > 0 THEN Inf(e.x)
    ELSE IF p.p2 < 0 THEN Inf(-e.x)
    ELSE Inf(0)

\* prior.value_for(unit), dispatched on the class of the Prior object
value_for(p, unit) ==
    IF p.kind = "u" THEN UniformValueFor(p, unit) ELSE GaussianValueFor(p, unit)

-----------------------------------------------------------------------------
(* The classes handed to add_class: what inspect.getargspec(cls.__init__)  *)
(* and cls.__bases__, __module__, __name__ give for them.                  *)
(*   class Profile(object):  def __init__(self, centre=(0., 0.))           *)
(*   class Light(Profile):   def __init__(self, centre=(0., 0.),           *)
(*                                        intensity=0.1)                   *)
(*   class Disk(object):     def __init__(self, radius)                    *)
(* and, for the lookups of the config alone, two classes of a third module *)
(* profiles.mass, the first of them named like the Disk of profiles.light: *)
(*   class Disk(Profile):    def __init__(self, centre=(0., 0.), radius=1.)*)
(*   class Halo(Light, Disk) with the Disk of profiles.light               *)

TupleDefault(n) == [tuple |-> TRUE, arity |-> n]

ScalarDefault == [tuple |-> FALSE, arity |-> 0]

ClassDef(c) ==
    CASE c = "object" ->
           [module |-> "__builtin__", name |-> "object", bases |-> <<>>,
            args |-> <<"self">>, defaults |-> <<>>, hasDefaults |-> FALSE]
      [] c = "Profile" ->
           [module |-> "profiles.geometry", name |-> "Profile", bases |-> <<"object">>,
            args |-> <<"self", "centre">>,
            defaults |-> <<TupleDefault(2)>>, hasDefaults |-> TRUE]
      [] c = "Light" ->
           [module |-> "profiles.light", name |-> "Light", bases |-> <<"Profile">>,
            args |-> <<"self", "centre", "intensity">>,
            defaults |-> <<TupleDefault(2), ScalarDefault>>,
            hasDefaults |-> TRUE]
      [] c = "Disk" ->
           [module |-> "profiles.light", name |-> "Disk", bases |-> <<"object">>,
            args |-> <<"self", "radius">>,
            defaults |-> <<>>, hasDefaults |-> FALSE]
      [] c = "mass.Disk" ->
           [module |-> "profiles.mass", name |-> "Disk", bases |-> <<"Profile">>,
            args |-> <<"self", "centre", "radius">>,
            defaults |-> <<TupleDefault(2), ScalarDefault>>,
            hasDefaults |-> TRUE]
      [] c = "Halo" ->
           [module |-> "profiles.mass", name |-> "Halo", bases |-> <<"Light", "Disk">>,
            args |-> <<"self">>, defaults |-> <<>>, hasDefaults |-> FALSE]

\* the classes a caller adds to a mapper
Classes == {"Profile", "Light", "Disk"}

\* the names a caller adds classes under
Names == {"one", "two"}

\* "{}_{}".format(arg, i)
ElementName(arg, i) ==
    CASE arg = "centre" /\ i = 0 -> "centre_0"
      [] arg = "centre" /\ i = 1 -> "centre_1"
      [] arg = "centre" /\ i = 2 -> "centre_2"
      [] OTHER -> "other_element"

-----------------------------------------------------------------------------
(* Config *)

Entry(section, option, tag, p1, p2) ==
    [section |-> section, option |-> option, tag |-> tag, p1 |-> p1, p2 |-> p2]

\* module_name.split(".")[-1]
LastComponent(module_name) ==
    CASE module_name = "profiles.geometry" -> "geometry"
      [] module_name = "profiles.light" -> "light"
      [] module_name = "profiles.mass" -> "mass"
      [] OTHER -> module_name

GeometryIni(lo1, hi1) ==
    { Entry("Profile", "centre_0", "u", -1, 1),
      Entry("Profile", "centre_1", "u", lo1, hi1) }

\* the config folders the model starts from: file name -> options
ConfigScenario ==
    [geometry |-> GeometryIni(-1, 1),
     light |-> { Entry("Light", "intensity", "u", 0, 5),
                 Entry("Disk", "radius", "g", 2, 1) }]

\* a folder with no entry for Light.intensity and a tag that is neither "u"
\* nor "g" for Disk.radius
ConfigFaulty ==
    [geometry |-> GeometryIni(0, 2),
     light |-> { Entry("Disk", "radius", "x", 0, 1) }]

Configs == {ConfigScenario, ConfigFaulty}

\* a folder in which the Disk of profiles.light has an entry for centre_0 as
\* well, and profiles.mass has a file of its own with an entry for Halo only
ConfigThreeModules ==
    [geometry |-> GeometryIni(-1, 1),
     light |-> { Entry("Light", "intensity", "u", 0, 5),
                 Entry("Disk", "radius", "g", 2, 1),
                 Entry("Disk", "centre_0", "g", 3, 1) },
     mass |-> { Entry("Halo", "mass", "u", 0, 1) }]

\* the folders the lookups of the config alone start from
LookupConfigs == Configs \cup {ConfigThreeModules}

\* the classes and the attribute names looked up
LookupClasses == {"Profile", "Light", "Disk", "mass.Disk", "Halo"}

LookupAttributes == {"centre_0", "intensity", "radius", "mass"}

\* ConfigParser.read of one file: a missing file is skipped, an option read
\* again replaces the one held
ParserRead(p, cfg, file) ==
    IF file \notin DOMAIN cfg THEN p
    ELSE cfg[file] \cup
         { e \in p : ~ \E f \in cfg[file] :
                          f.section = e.section /\ f.option = e.option }

\* Config.read
Read(p, cfg, module_name) == ParserRead(p, cfg, LastComponent(module_name))

\* ConfigParser.has_option
HasOption(p, class_name, attribute_name) ==
    \E e \in p : e.section = class_name /\ e.option = attribute_name

\* Config.has once the file was read: the parser, and the answer
HasAfterRead(p1, class_name, attribute_name) ==
    [parser |-> p1, result |-> HasOption(p1, class_name, attribute_name)]

\* Config.has
Has(p, cfg, module_name, class_name, attribute_name) ==
    HasAfterRead(Read(p, cfg, module_name), class_name, attribute_name)

\* arr[0] and map(float, arr[1:]) of an option's text "tag, p1, p2"
PriorArray(e) == <<e.tag, e.p1, e.p2>>

\* Config.get once the file was read: the parser, and the prior array
GetAfterRead(p1, class_name, attribute_name) ==
    [parser |-> p1,
     arr |-> PriorArray(CHOOSE e \in p1 :
                            e.section = class_name /\ e.option = attribute_name)]

\* Config.get
Get(p, cfg, module_name, class_name, attribute_name) ==
    GetAfterRead(Read(p, cfg, module_name), class_name, attribute_name)

RECURSIVE family(_)
RECURSIVE familyOfBases(_)
\* the generator family(current_class): the class, then each base's family
family(current_class) ==
    <<current_class>> \o familyOfBases(ClassDef(current_class).bases)

familyOfBases(bases) ==
    IF bases = <<>> THEN <<>>
    ELSE family(Head(bases)) \o familyOfBases(Tail(bases))

\* return self.get(...): found = TRUE tells the loop returned
Returned(g) == [parser |-> g.parser, found |-> TRUE, arr |-> g.arr]

RECURSIVE NearestIn(_, _, _, _)
RECURSIVE NearestAfterHas(_, _, _, _)
\* the for loop of get_for_nearest_ancestor over the rest of the family;
\* found = FALSE is the PriorException raised after the loop
NearestIn(p, cfg, fam, attribute_name) ==
    IF fam = <<>> THEN [parser |-> p, found |-> FALSE, arr |-> <<>>]
    ELSE NearestAfterHas(
             Has(p, cfg, ClassDef(Head(fam)).module, ClassDef(Head(fam)).name,
                 attribute_name),
             cfg, fam, attribute_name)

\* the body of the loop once self.has(...) answered h
NearestAfterHas(h, cfg, fam, attribute_name) ==
    IF h.result
    THEN Returned(Get(h.parser, cfg, ClassDef(Head(fam)).module,
                      ClassDef(Head(fam)).name, attribute_name))
    ELSE NearestIn(h.parser, cfg, Tail(fam), attribute_name)

\* Config.get_for_nearest_ancestor
get_for_nearest_ancestor(p, cfg, cls, attribute_name) ==
    NearestIn(p, cfg, family(cls), attribute_name)

\* a call of get_for_nearest_ancestor and its outcome: the prior array
\* returned, or the PriorException raised with the class and attribute it
\* names
Lookup(cls, attribute_name, r) ==
    [cls |-> cls, attribute_name |-> attribute_name, found |-> r.found, arr |-> r.arr,
     named |-> IF r.found THEN <<>>
               ELSE <<ClassDef(cls).module, ClassDef(cls).name, attribute_name>>]

NoLookup == Lookup("object", "", [found |-> TRUE, arr |-> <<>>])

-----------------------------------------------------------------------------
(* Prior objects *)

PriorObject(id, kind, p1, p2) == [id |-> id, kind |-> kind, p1 |-> p1, p2 |-> p2]

\* a Prior.__init__ that does not read the counter
NewIdConstant(n) == 0

\* Prior.__init__: the id given to a Prior created when the counter is n
NewId(n) == n

\* Prior.__init__: the counter after the creation
NextPriorNumber(n) == n + 1

\* Prior.__eq__
PriorEq(a, b) == a.id = b.id

\* UniformPrior(p1, p2) or GaussianPrior(p1, p2) in world w: the world after
\* the constructor ran, and a reference to the new object
NewPrior(w, kind, p1, p2) ==
    [w |-> [w EXCEPT !.heap = Append(w.heap,
                                     PriorObject(NewId(w.num), kind, p1, p2)),
                     !.num = NextPriorNumber(w.num)],
     exc |-> FALSE,
     slot |-> [t |-> "prior", ref |-> Len(w.heap) + 1]]

\* the world after Config read its files
WithParser(w, p) == [w EXCEPT !.parser = p]

\* make_prior once the config answered r: a Prior for "u" and for "g", the
\* PriorException passed on, and None for any other tag
PriorFromConfig(w, r) ==
    IF ~r.found THEN [w |-> WithParser(w, r.parser), exc |-> TRUE, slot |-> None]
    ELSE IF r.arr[1] = "u" THEN NewPrior(WithParser(w, r.parser), "u", r.arr[2], r.arr[3])
    ELSE IF r.arr[1] = "g" THEN NewPrior(WithParser(w, r.parser), "g", r.arr[2], r.arr[3])
    ELSE [w |-> WithParser(w, r.parser), exc |-> FALSE, slot |-> None]

\* ClassMap.make_prior in world w = [parser, num, heap, tuples]
make_prior(w, cfg, attribute_name, cls) ==
    PriorFromConfig(w, get_for_nearest_ancestor(w.parser, cfg, cls, attribute_name))

-----------------------------------------------------------------------------
(* ClassMap.add_class *)

\* the orders in which a dict of n keys may be enumerated
Perms(n) == { s \in [1..n -> 1..n] : \A i, j \in 1..n : s[i] = s[j] => i = j }

\* defaults = dict(zip(args[-len(defaults):], defaults)), or {} when the class
\* has no defaults (the TypeError branch): the default of the k-th argument
DefaultOf(d, k) ==
    LET offset == Len(d.args) - Len(d.defaults) IN
    IF d.hasDefaults /\ k > offset THEN d.defaults[k - offset]
    ELSE ScalarDefault

\* the arguments of cls.__init__ whose default is a tuple
TupleArgs(cls) ==
    LET d == ClassDef(cls) IN
    { d.args[k] : k \in { k \in 2..Len(d.args) : DefaultOf(d, k).tuple } }

ArityOf(cls, arg) ==
    LET d == ClassDef(cls)
        k == CHOOSE k \in 2..Len(d.args) : d.args[k] = arg
    IN DefaultOf(d, k).arity

\* the key the order of the PriorModel's own __dict__ is chosen under
OwnDict == "__dict__"

\* for each TuplePrior one add_class call makes, the order in which its
\* __dict__ enumerates the element attributes (position -> element index + 1),
\* and for the PriorModel it makes the order in which its __dict__ enumerates
\* the arguments (position -> index among the arguments after self)
EnumOrders(cls) ==
    { f \in [TupleArgs(cls) \cup {OwnDict} ->
                UNION ({ Perms(ArityOf(cls, a)) : a \in TupleArgs(cls) }
                         \cup { Perms(Len(ClassDef(cls).args) - 1) })] :
        /\ \A a \in TupleArgs(cls) : f[a] \in Perms(ArityOf(cls, a))
        /\ f[OwnDict] \in Perms(Len(ClassDef(cls).args) - 1) }

\* a TuplePrior object: its element attributes by index, and the order in
\* which its __dict__ enumerates them
TupleObject(elems, order) == [elems |-> elems, order |-> order]

\* the elements set by the rest of the loop, after the one just set
WithElement(slot, rest) ==
    [w |-> rest.w, exc |-> rest.exc, elems |-> <<slot>> \o rest.elems]

RECURSIVE TupleElements(_, _, _, _, _, _)
RECURSIVE ElementsAfter(_, _, _, _, _, _)
\* for i in range(len(defaults[arg])): setattr(tuple_prior, "<arg>_<i>", ...)
\* from element i on; exc = TRUE when make_prior raised
TupleElements(w, cfg, cls, arg, i, n) ==
    IF i >= n THEN [w |-> w, exc |-> FALSE, elems |-> <<>>]
    ELSE ElementsAfter(make_prior(w, cfg, ElementName(arg, i), cls), cfg, cls, arg, i, n)

\* the loop once make_prior gave m for element i
ElementsAfter(m, cfg, cls, arg, i, n) ==
    IF m.exc THEN [w |-> m.w, exc |-> TRUE, elems |-> <<>>]
    ELSE WithElement(m.slot, TupleElements(m.w, cfg, cls, arg, i + 1, n))

\* the world with one more TuplePrior object
WithTuple(w, elems, order) ==
    [w EXCEPT !.tuples = Append(w.tuples, TupleObject(elems, order))]

TupleSlot(ref) == [t |-> "tuple", ref |-> ref]

RECURSIVE AddArgs(_, _, _, _, _, _)
RECURSIVE AfterTuple(_, _, _, _, _, _)
RECURSIVE AfterPrior(_, _, _, _, _, _)
\* for arg in args: ... setattr(prior_model, arg, ...), from the k-th entry of
\* arg_spec.args on; attrs is prior_model.__dict__ without cls
AddArgs(w, cfg, cls, k, enum, attrs) ==
    IF k > Len(ClassDef(cls).args)
    THEN [w |-> w, exc |-> FALSE, attrs |-> attrs, order |-> enum[OwnDict]]
    ELSE IF DefaultOf(ClassDef(cls), k).tuple
    THEN AfterTuple(TupleElements(w, cfg, cls, ClassDef(cls).args[k], 0,
                                  DefaultOf(ClassDef(cls), k).arity),
                    cfg, cls, k, enum, attrs)
    ELSE AfterPrior(make_prior(w, cfg, ClassDef(cls).args[k], cls),
                    cfg, cls, k, enum, attrs)

\* setattr(prior_model, arg, tuple_prior) and the rest of the loop
AfterTuple(t, cfg, cls, k, enum, attrs) ==
    IF t.exc THEN [w |-> t.w, exc |-> TRUE, attrs |-> attrs, order |-> enum[OwnDict]]
    ELSE AddArgs(WithTuple(t.w, t.elems, enum[ClassDef(cls).args[k]]), cfg, cls, k + 1, enum,
                 (ClassDef(cls).args[k] :> TupleSlot(Len(t.w.tuples) + 1)) @@ attrs)

\* setattr(prior_model, arg, self.make_prior(arg, cls)) and the rest of the loop
AfterPrior(m, cfg, cls, k, enum, attrs) ==
    IF m.exc THEN [w |-> m.w, exc |-> TRUE, attrs |-> attrs, order |-> enum[OwnDict]]
    ELSE AddArgs(m.w, cfg, cls, k + 1, enum, (ClassDef(cls).args[k] :> m.slot) @@ attrs)

\* PriorModel(cls) with its attributes set, and the order in which its
\* __dict__ enumerates the arguments of the class
PriorModel(cls, attrs, order) == [cls |-> cls, attrs |-> attrs, order |-> order]

\* an add_class that leaves a name already present as it is
StoredUnlessPresent(r, m, name, cls) ==
    IF r.exc THEN [w |-> r.w, exc |-> TRUE, mapper |-> m]
    ELSE [w |-> r.w, exc |-> FALSE,
          mapper |-> m @@ (name :> PriorModel(cls, r.attrs, r.order))]

\* an add_class that stores the PriorModel as far as it got when the loop raised
StoredAlways(r, m, name, cls) ==
    [w |-> r.w, exc |-> r.exc, mapper |-> (name :> PriorModel(cls, r.attrs, r.order)) @@ m]

\* setattr(self, name, prior_model), unless the loop raised
Stored(r, m, name, cls) ==
    IF r.exc THEN [w |-> r.w, exc |-> TRUE, mapper |-> m]
    ELSE [w |-> r.w, exc |-> FALSE,
          mapper |-> (name :> PriorModel(cls, r.attrs, r.order)) @@ m]

\* ClassMap.add_class(name, cls) on mapper dict m in world w: the world and the
\* mapper afterwards; exc = TRUE when it raised PriorException
add_class(w, cfg, m, name, cls, enum) ==
    Stored(AddArgs(w, cfg, cls, 2, enum, <<>>), m, name, cls)

-----------------------------------------------------------------------------
(* ClassMap.priors *)

\* TuplePrior.priors: the Prior attributes, in __dict__ order
TuplePriorPriors(tp) ==
    LET enumerated == [k \in 1..Len(tp.order) |-> tp.elems[tp.order[k]]]
        IsPrior(s) == s.t = "prior"
        kept == SelectSeq(enumerated, IsPrior)
    IN [k \in 1..Len(kept) |-> kept[k].ref]

\* the attribute names of a PriorModel as its __dict__.iteritems() gives them:
\* the arguments of its class that were set on it, in the order of its dict
AttrNames(pm) ==
    LET args == Tail(ClassDef(pm.cls).args)
        enumerated == [k \in 1..Len(args) |-> args[pm.order[k]]]
        IsSet(a) == a \in DOMAIN pm.attrs
    IN SelectSeq(enumerated, IsSet)

\* PriorModel.direct_priors
direct_priors(pm) ==
    LET IsPrior(a) == pm.attrs[a].t = "prior" IN SelectSeq(AttrNames(pm), IsPrior)

\* PriorModel.tuple_priors
tuple_priors(pm) ==
    LET IsTuple(a) == pm.attrs[a].t = "tuple" IN SelectSeq(AttrNames(pm), IsTuple)

RECURSIVE TuplesPriors(_, _, _)
\* [prior for tuple_prior in self.tuple_priors for prior in tuple_prior[1].priors]
TuplesPriors(pm, names, tps) ==
    IF names = <<>> THEN <<>>
    ELSE TuplePriorPriors(tps[pm.attrs[Head(names)].ref])
         \o TuplesPriors(pm, Tail(names), tps)

\* PriorModel.priors, as references to the Prior objects
PriorModelPriors(pm, tps) ==
    LET dp == direct_priors(pm) IN
    [k \in 1..Len(dp) |-> pm.attrs[dp[k]].ref] \o TuplesPriors(pm, tuple_priors(pm), tps)

\* ClassMap.prior_models: the names of the PriorModels, in some order
PriorModelOrders(m) ==
    { s \in [1..Cardinality(DOMAIN m) -> DOMAIN m] :
        \A i, j \in 1..Cardinality(DOMAIN m) : s[i] = s[j] => i = j }

RECURSIVE AllPriors(_, _, _)
\* for _, prior_model in self.prior_models for prior in prior_model.priors
AllPriors(m, names, tps) ==
    IF names = <<>> THEN <<>>
    ELSE PriorModelPriors(m[Head(names)], tps) \o AllPriors(m, Tail(names), tps)

\* a prior_set that keeps a list instead of a dict keyed by Prior
DictKeysKeepingAll(keys, refs, hp) == keys \o refs

RECURSIVE DictKeys(_, _, _)
\* the keys of {prior[1]: prior for ...}: a Prior equal (__eq__) to a key
\* already held replaces that key's value and adds no key
DictKeys(keys, refs, hp) ==
    IF refs = <<>> THEN keys
    ELSE IF \E k \in 1..Len(keys) : PriorEq(hp[keys[k]], hp[Head(refs)])
         THEN DictKeys(keys, Tail(refs), hp)
         ELSE DictKeys(Append(keys, Head(refs)), Tail(refs), hp)

\* the slots of the table a dict of up to five keys has
DictSlots == 8

\* the slot the key takes: Prior.__hash__ is the id, and the hash of a small
\* integer is the integer
Slot(p) == p.id % DictSlots

RECURSIVE InsertBySlot(_, _, _)
InsertBySlot(s, r, hp) ==
    IF s = <<>> THEN <<r>>
    ELSE IF Slot(hp[r]) <= Slot(hp[Head(s)]) THEN <<r>> \o s
    ELSE <<Head(s)>> \o InsertBySlot(Tail(s), r, hp)

RECURSIVE Values(_, _)
\* dict.values(): the entries in the order of their slots, not in the order
\* they were put in
Values(keys, hp) ==
    IF keys = <<>> THEN <<>>
    ELSE InsertBySlot(Values(Tail(keys), hp), Head(keys), hp)

\* ClassMap.prior_set; the order in which prior_models gives the PriorModels
\* does not show in it, every key having a slot of its own
prior_set(m, tps, hp) ==
    LET order == CHOOSE s \in PriorModelOrders(m) : TRUE IN
    Values(DictKeys(<<>>, AllPriors(m, order, tps), hp), hp)

\* a sort that puts every entry behind the ones already there
InsertLast(s, r, hp) == Append(s, r)

RECURSIVE Insert(_, _, _)
\* r put into the sorted sequence s, before the entries whose id is not smaller
Insert(s, r, hp) ==
    IF s = <<>> THEN <<r>>
    ELSE IF hp[r].id <= hp[Head(s)].id THEN <<r>> \o s
    ELSE <<Head(s)>> \o Insert(Tail(s), r, hp)

RECURSIVE SortedById(_, _)
\* sorted(list, key=lambda prior: prior[1].id)
SortedById(s, hp) ==
    IF s = <<>> THEN <<>>
    ELSE Insert(SortedById(Tail(s), hp), Head(s), hp)

\* ClassMap.priors
priors(m, tps, hp) == SortedById(prior_set(m, tps, hp), hp)


-----------------------------------------------------------------------------
(* ClassMap.reconstruction_for_vector *)

RECURSIVE ArgumentPairsTruncating(_, _, _, _)
\* pairing priors with units as zip (or Python 3's map) does: the longer
\* list is cut to the length of the shorter
ArgumentPairsTruncating(ps, vector, i, hp) ==
    IF i > Len(ps) \/ i > Len(vector) THEN [exc |-> "", pairs |-> <<>>]
    ELSE LET rest == ArgumentPairsTruncating(ps, vector, i + 1, hp) IN
         [exc |-> rest.exc,
          pairs |-> <<[id |-> hp[ps[i]].id, value |-> value_for(hp[ps[i]], vector[i])]>>
                    \o rest.pairs]

RECURSIVE ArgumentPairs(_, _, _, _)
\* map(lambda prior, unit: (prior[1], prior[1].value_for(unit)), self.priors,
\* vector) from position i on. Python 2's map pads the shorter list with None:
\* prior[1] of None and value_for(None) both raise TypeError
ArgumentPairs(ps, vector, i, hp) ==
    IF i > Len(ps) /\ i > Len(vector) THEN [exc |-> "", pairs |-> <<>>]
    ELSE IF i > Len(ps) \/ i > Len(vector) THEN [exc |-> "TypeError", pairs |-> <<>>]
    ELSE LET rest == ArgumentPairs(ps, vector, i + 1, hp) IN
         [exc |-> rest.exc,
          pairs |-> <<[id |-> hp[ps[i]].id, value |-> value_for(hp[ps[i]], vector[i])]>>
                    \o rest.pairs]

RECURSIVE DictOf(_)
\* dict(pairs): Prior (by id) -> value, a later pair replacing an earlier one
DictOf(pairs) ==
    IF pairs = <<>> THEN <<>>
    ELSE LET last == pairs[Len(pairs)] IN
         (last.id :> last.value) @@ DictOf(SubSeq(pairs, 1, Len(pairs) - 1))

\* TuplePrior.value_for_arguments; exc when a Prior is no key of arguments
value_for_arguments(tp, arguments, hp) ==
    LET ps == TuplePriorPriors(tp) IN
    IF \E k \in 1..Len(ps) : hp[ps[k]].id \notin DOMAIN arguments
    THEN [exc |-> "KeyError", value |-> <<>>]
    ELSE [exc |-> "", value |-> [k \in 1..Len(ps) |-> arguments[hp[ps[k]].id]]]

\* self.cls(**model_arguments): TypeError when an argument without default
\* is not among the keywords
Construct(cls, model_arguments) ==
    LET d == ClassDef(cls)
        required == { d.args[k] : k \in 2..(Len(d.args) - Len(d.defaults)) }
    IN IF required \subseteq DOMAIN model_arguments
       THEN [exc |-> "", instance |-> [cls |-> cls, kwargs |-> model_arguments]]
       ELSE [exc |-> "TypeError", instance |-> [cls |-> cls, kwargs |-> <<>>]]

RECURSIVE TupleArguments(_, _, _, _, _)
\* for tuple_prior in self.tuple_priors: model_arguments[name] = ...
TupleArguments(pm, names, arguments, tps, hp) ==
    IF names = <<>> THEN [exc |-> "", kwargs |-> <<>>]
    ELSE LET v == value_for_arguments(tps[pm.attrs[Head(names)].ref], arguments, hp)
             rest == TupleArguments(pm, Tail(names), arguments, tps, hp)
         IN IF v.exc # "" THEN [exc |-> v.exc, kwargs |-> <<>>]
            ELSE [exc |-> rest.exc, kwargs |-> (Head(names) :> v.value) @@ rest.kwargs]

\* an instance_for_arguments that takes the k-th direct argument's value from
\* the k-th entry of arguments (in id order) instead of looking its Prior up
InstanceByPosition(pm, arguments, tps, hp) ==
    LET dp == direct_priors(pm)
        Nth(k) == CHOOSE id \in DOMAIN arguments :
                      Cardinality({ j \in DOMAIN arguments : j < id }) = k - 1
        t == TupleArguments(pm, tuple_priors(pm), arguments, tps, hp)
    IN IF Len(dp) > Cardinality(DOMAIN arguments) \/ t.exc # ""
       THEN [exc |-> "KeyError", instance |-> [cls |-> pm.cls, kwargs |-> <<>>]]
       ELSE Construct(pm.cls,
                      t.kwargs @@ [a \in { dp[k] : k \in 1..Len(dp) } |->
                          arguments[Nth(CHOOSE k \in 1..Len(dp) : dp[k] = a)]])

\* PriorModel.instance_for_arguments
instance_for_arguments(pm, arguments, tps, hp) ==
    LET dp == direct_priors(pm)
        direct == { dp[k] : k \in 1..Len(dp) }
    IN IF \E a \in direct : hp[pm.attrs[a].ref].id \notin DOMAIN arguments
       THEN [exc |-> "KeyError", instance |-> [cls |-> pm.cls, kwargs |-> <<>>]]
       ELSE LET t == TupleArguments(pm, tuple_priors(pm), arguments, tps, hp) IN
            IF t.exc # ""
            THEN [exc |-> t.exc, instance |-> [cls |-> pm.cls, kwargs |-> <<>>]]
            ELSE Construct(pm.cls,
                           t.kwargs @@ [a \in direct |-> arguments[hp[pm.attrs[a].ref].id]])

\* a Reconstruction under construction, or what is left when the call raised:
\* the attributes set so far and the number of classes instantiated
Outcome(status, attrs, made) == [status |-> status, attrs |-> attrs, made |-> made]

NoReconstruction == Outcome("none", <<>>, 0)

RECURSIVE Rebuild(_, _, _, _, _, _)
\* for prior_model in self.prior_models: setattr(reconstruction, ...)
Rebuild(m, names, arguments, tps, hp, acc) ==
    IF names = <<>> THEN Outcome("ok", acc.attrs, acc.made)
    ELSE LET r == instance_for_arguments(m[Head(names)], arguments, tps, hp) IN
         IF r.exc # "" THEN Outcome(r.exc, acc.attrs, acc.made)
         ELSE Rebuild(m, Tail(names), arguments, tps, hp,
                      Outcome("", (Head(names) :> r.instance) @@ acc.attrs, acc.made + 1))

\* the body of reconstruction_for_vector once self.priors was evaluated to ps,
\* enumerating the PriorModels in `order`
ReconstructionFor(ps, m, tps, hp, vector, order) ==
    LET a == ArgumentPairs(ps, vector, 1, hp) IN
    IF a.exc # "" THEN Outcome(a.exc, <<>>, 0)
    ELSE Rebuild(m, order, DictOf(a.pairs), tps, hp, Outcome("", <<>>, 0))

\* ClassMap.reconstruction_for_vector
reconstruction_for_vector(m, tps, hp, vector, order) ==
    ReconstructionFor(priors(m, tps, hp), m, tps, hp, vector, order)

-----------------------------------------------------------------------------
(* The vectors an optimizer or a caller hands to the mapper *)

UnitSeq == <<0, 2, 5, 10>>

\* the vector of length n whose i-th unit is the (i + k)-th of UnitSeq, cyclically
Ramp(k, n) == [i \in 1..n |-> UnitSeq[((i - 1 + k) % Len(UnitSeq)) + 1]]

Constant(u, n) == [i \in 1..n |-> u]

ScenarioVector == <<5, 5, 2>>

\* how much shorter than `priors` a vector handed to the mapper may be
MaxMissing == 1

VectorsFor(n) ==
    LET lengths == { l \in (n - MaxMissing)..(n + MaxExtra) : l >= 0 } IN
    { Constant(u, l) : u \in {0, 10}, l \in lengths }
    \cup { Ramp(1, l) : l \in lengths }
    \cup { v \in {ScenarioVector} : Len(v) \in lengths }

-----------------------------------------------------------------------------
(* The analysis pipeline (src/auto_lens/analysis/pipeline.py) *)

\* The optimizer, the model mapper of the analyses, the ray tracer and the
\* likelihood are collaborators: the optimizer is any finite series of calls
\* of the fitness function it was given, followed by its return; an object a
\* collaborator builds is a record naming the stage and the fitness call
\* that built it, so that two objects built by two calls are two objects.

\* the most model analyses a pipeline is constructed with
MaxStages == 2

\* the most fitness calls an optimizer makes in one run
MaxCalls == 2

\* the largest number of analyses constructed
MaxAnalyses == 3

\* the physical vectors an optimizer tries
PhysicalVectors == {1, 2}

Object(kind, stage, call, vector) ==
    [kind |-> kind, stage |-> stage, call |-> call, vector |-> vector]

\* Python's None where an object is expected
NoneObject == Object("None", 0, 0, 0)

\* the empty list a ModelAnalysis.Run starts with
EmptyList == Object("[]", 0, 0, 0)

\* the pixelization and instrumentation the caller hands to MainPipeline.run
CallerPixelization == Object("pixelization", 0, 0, 0)

CallerInstrumentation == Object("instrumentation", 0, 0, 0)

\* ray_tracing.Tracer(lens_galaxies, source_galaxies, image_grid_collection)
Tracer(lens_galaxies, source_galaxies, image_grid_collection) ==
    [lens_galaxies |-> lens_galaxies, source_galaxies |-> source_galaxies,
     image_grid_collection |-> image_grid_collection]

\* fitting.likelihood_for_image_tracer_pixelization_and_instrumentation: the
\* likelihood is known by what it was computed from
Likelihood(tracer, pixelization, instrumentation) ==
    [known |-> TRUE, tracer |-> tracer, pixelization |-> pixelization,
     instrumentation |-> instrumentation]

\* the None a Run's likelihood starts as
NoLikelihood ==
    [known |-> FALSE, tracer |-> Tracer(NoneObject, NoneObject, NoneObject),
     pixelization |-> NoneObject, instrumentation |-> NoneObject]

\* grids.GridCoordsCollection.from_mask(mask), built once per run
from_mask(analysis, stage) == Object("grid", stage, 0, 0)

RunObject(analysis, stage, grid, lens_galaxies, source_galaxies, pixelization, instrumentation, likelihood, calls) ==
    [analysis |-> analysis, stage |-> stage, image |-> Object("image", 0, 0, 0),
     model_mapper |-> Object("model_mapper", 0, 0, 0), image_grid_collection |-> grid,
     lens_galaxies |-> lens_galaxies, source_galaxies |-> source_galaxies,
     pixelization |-> pixelization, instrumentation |-> instrumentation,
     likelihood |-> likelihood, calls |-> calls]

NoRun == RunObject("", 0, NoneObject, NoneObject, NoneObject, NoneObject,
                   NoneObject, NoLikelihood, 0)

\* ModelAnalysis.Run.__init__
ModelRun(stage, grid, pixelization, instrumentation) ==
    RunObject("model", stage, grid, EmptyList, EmptyList,
              pixelization, instrumentation, NoLikelihood, 0)

\* HyperparameterAnalysis.Run.__init__
HyperparameterRun(stage, grid, lens_galaxies, source_galaxies) ==
    RunObject("hyper", stage, grid, lens_galaxies, source_galaxies,
              NoneObject, NoneObject, NoLikelihood, 0)

\* a model fitness_function that also replaces the pixelization of its Run
ModelRebuiltWithPixelization(run, physical_values) ==
    [run EXCEPT !.calls = run.calls + 1,
                !.lens_galaxies =
                    Object("lens_galaxies", run.stage, run.calls + 1, physical_values),
                !.source_galaxies =
                    Object("source_galaxies", run.stage, run.calls + 1, physical_values),
                !.pixelization =
                    Object("pixelization", run.stage, run.calls + 1, physical_values)]

\* ModelAnalysis.Run.fitness_function up to the construction of the tracer
ModelRebuilt(run, physical_values) ==
    [run EXCEPT !.calls = run.calls + 1,
                !.lens_galaxies =
                    Object("lens_galaxies", run.stage, run.calls + 1, physical_values),
                !.source_galaxies =
                    Object("source_galaxies", run.stage, run.calls + 1, physical_values)]

\* HyperparameterAnalysis.Run.fitness_function up to the construction of the
\* tracer
HyperparameterRebuilt(run, physical_values) ==
    [run EXCEPT !.calls = run.calls + 1,
                !.pixelization =
                    Object("pixelization", run.stage, run.calls + 1, physical_values),
                !.instrumentation =
                    Object("instrumentation", run.stage, run.calls + 1, physical_values)]

\* a fitness_function that builds the grids from the mask again in every call
WithRebuiltGrids(run) ==
    [run EXCEPT !.likelihood =
        Likelihood(Tracer(run.lens_galaxies, run.source_galaxies,
                          Object("grid", run.stage, run.calls, 0)),
                   run.pixelization, run.instrumentation)]

\* the rest of either fitness_function: the tracer is constructed and the
\* likelihood is stored and returned
WithLikelihood(run) ==
    [run EXCEPT !.likelihood =
        Likelihood(Tracer(run.lens_galaxies, run.source_galaxies,
                          run.image_grid_collection),
                   run.pixelization, run.instrumentation)]

\* either fitness_function, "return self.likelihood": what the optimizer gets
ReturnedScore(run) == run.likelihood

\* a Result that is made without the likelihood of its Run
ResultWithoutLikelihood(run) ==
    [likelihood |-> NoLikelihood, lens_galaxies |-> run.lens_galaxies,
     source_galaxies |-> run.source_galaxies]

\* ModelAnalysis.Result.__init__
ModelResult(run) ==
    [likelihood |-> run.likelihood, lens_galaxies |-> run.lens_galaxies,
     source_galaxies |-> run.source_galaxies]

\* HyperparameterAnalysis.Result.__init__
HyperparameterResult(run) ==
    [pixelization |-> run.pixelization, instrumentation |-> run.instrumentation,
     likelihood |-> run.likelihood]

\* a call of an analysis' run as the pipeline makes it
RunCall(run) ==
    [analysis |-> run.analysis, stage |-> run.stage,
     lens_galaxies |-> run.lens_galaxies, source_galaxies |-> run.source_galaxies,
     pixelization |-> run.pixelization, instrumentation |-> run.instrumentation]

\* a pipeline that hands the hyperparameter analysis the galaxies of the model
\* result the local variable held before this stage
StaleResult(model_result, previous) == previous

\* MainPipeline.run, "Analyse the hyper parameters": the model result whose
\* galaxies are handed to hyperparameter_analysis.run, given the one just
\* returned and the one the local variable held before
AnalysedResult(model_result, previous) == model_result

\* lists whose entries all are the one Result object the shared analysis
\* keeps writing to
SharedResult(results, result) == [i \in 1..(Len(results) + 1) |-> result]

\* a pipeline that puts each result at the front of its list
Prepended(results, result) == <<result>> \o results

\* MainPipeline.run, "Append results for these two analyses"
Appended(results, result) == Append(results, result)

\* a loop that takes the first model analysis on every pass
FirstStage(model_results) == 1

\* MainPipeline.run, "for model_analysis in self.model_analyses": the analysis
\* the loop takes next, one result having been appended per pass so far
NextStage(model_results) == Len(model_results) + 1

\* a pipeline that catches the error of an analysis and lets it run on
Retried(pc) == pc

\* where MainPipeline.run is after an analysis raised: neither it nor the
\* analysis' run has a handler, so the error leaves MainPipeline.run
AfterError(pc) == "raised"

\* a pipeline that forgets to update the pixelization after a stage
KeptPixelization(pixelization, hyperparameter_result) == pixelization

\* MainPipeline.run, "Update the hyperparameters"
UpdatedPixelization(pixelization, hyperparameter_result) ==
    hyperparameter_result.pixelization

UpdatedInstrumentation(instrumentation, hyperparameter_result) ==
    hyperparameter_result.instrumentation

Pipe(pc, analyses, pixelization, instrumentation, model_results, hyperparameter_results, model_result, run, calls, score) ==
    [pc |-> pc, analyses |-> analyses, pixelization |-> pixelization,
     instrumentation |-> instrumentation, model_results |-> model_results,
     hyperparameter_results |-> hyperparameter_results,
     model_result |-> model_result, run |-> run, calls |-> calls, score |-> score]

\* a constructed pipeline whose run has not been called
PipeIdle ==
    Pipe("idle", 0, NoneObject, NoneObject, <<>>, <<>>, ModelResult(NoRun), NoRun, <<>>,
         NoLikelihood)

-----------------------------------------------------------------------------
(* The generalized Analysis (src/auto_lens/analysis/pipeline.py) *)

\* the four roles by the keyword run takes their instance under, in the order
\* run checks them
Roles == <<"pixelization", "instrumentation", "lens_galaxies", "source_galaxies">>

RoleSet == { Roles[i] : i \in DOMAIN Roles }

\* Analysis.__init__, attribute_map read from instance name to model name
ModelName(role) ==
    CASE role = "pixelization" -> "pixelization_class"
      [] role = "instrumentation" -> "instrumentation_class"
      [] role = "lens_galaxies" -> "lens_galaxy_priors"
      [] role = "source_galaxies" -> "source_galaxy_priors"

\* what the constructor's keywords give for a model name: no keyword at all, a
\* value Python takes as false (None, an empty list) or one it takes as true
ModelValues == {"absent", "falsy", "truthy"}

AnalysisObject(pc, models, missing_attributes, instances, exc, offending, optimizer_runs) ==
    [pc |-> pc, models |-> models, missing_attributes |-> missing_attributes,
     instances |-> instances, exc |-> exc, offending |-> offending,
     optimizer_runs |-> optimizer_runs]

\* no Analysis has been constructed
NoAnalysis ==
    AnalysisObject("none", [r \in RoleSet |-> "absent"], {}, {}, "", "", 0)

\* Analysis.__init__: missing_attributes
missing_attributes(models) == { r \in RoleSet : models[r] = "absent" }

\* Analysis.__init__: every keyword becomes an attribute; nothing is checked
AnalysisConstructed(models) ==
    AnalysisObject("constructed", models, missing_attributes(models), {}, "", "", 0)

\* Analysis.run.one_or_other(model_name, instance_name)
one_or_other(models, instances, role) ==
    LET is_model == models[role] = "truthy"
        is_instance == role \in instances
    IN IF is_model /\ is_instance THEN "AssertionError"
       ELSE IF ~(is_model \/ is_instance) THEN "AssertionError"
       ELSE ""

\* a run that reports the last role its checks refuse, not the first
LastRejected(models, instances, i) ==
    LET refused == {j \in i..Len(Roles) : one_or_other(models, instances, Roles[j]) # ""}
    IN IF refused = {} THEN [exc |-> "", offending |-> ""]
       ELSE LET j == CHOOSE k \in refused : \A l \in refused : l <= k
            IN [exc |-> one_or_other(models, instances, Roles[j]), offending |-> Roles[j]]

RECURSIVE FirstRejected(_, _, _)
\* Analysis.run: the four one_or_other calls in order; the first that raises
\* ends run
FirstRejected(models, instances, i) ==
    IF i > Len(Roles) THEN [exc |-> "", offending |-> ""]
    ELSE IF one_or_other(models, instances, Roles[i]) # ""
         THEN [exc |-> one_or_other(models, instances, Roles[i]), offending |-> Roles[i]]
         ELSE FirstRejected(models, instances, i + 1)

\* Analysis.run(image, mask, **kwargs)
AnalysisRan(a, instances) ==
    LET r == FirstRejected(a.models, instances, 1) IN
    AnalysisObject("ran", a.models, a.missing_attributes, instances, r.exc,
                   r.offending, a.optimizer_runs)

-----------------------------------------------------------------------------
(* A UniformPrior on its own *)

\* the limits a UniformPrior is constructed with, and the units, in tenths,
\* value_for is called with
Limits == -2..2

UnitSteps == 0..10

\* a reference to a UniformPrior and the last value_for(unit) call on it
Evaluation(called, prior, unit, value) ==
    [called |-> called, prior |-> prior, unit |-> unit, value |-> value]

\* no UniformPrior was made on its own
NoEvaluation == Evaluation(FALSE, 0, 0, Num(0))

\* the state of the module before any Prior was made
NewWorld == [parser |-> {}, num |-> 0, heap |-> <<>>, tuples |-> <<>>]

-----------------------------------------------------------------------------
(* Two fitness_function calls in flight *)

\* the two calls, by the number of the evaluation each one is
Callers == {1, 2}

\* a call that works on the first Run whatever Run it was given
AlwaysFirstRun(shared, caller) == 1

\* the Run a call is on: the one Run if it is shared, else the call's own
RunOf(shared, caller) == IF shared THEN 1 ELSE caller

\* a call of fitness_function(physical_values): where it is, what it has read
\* from the Run and computed so far, and what it returned
Call(pc, physical_values, lens_galaxies, tracer, pixelization, likelihood, returned) ==
    [pc |-> pc, physical_values |-> physical_values, lens_galaxies |-> lens_galaxies,
     tracer |-> tracer, pixelization |-> pixelization, likelihood |-> likelihood,
     returned |-> returned]

NotCalled ==
    Call("idle", 0, NoneObject, Tracer(NoneObject, NoneObject, NoneObject), NoneObject,
         NoLikelihood, NoLikelihood)

Concurrent(shared, runs, callers) ==
    [shared |-> shared, runs |-> runs, callers |-> callers]

NoConcurrent == Concurrent(FALSE, <<NoRun, NoRun>>, [c \in Callers |-> NotCalled])

\* fitness_function, its reads and writes of the Run in order: the two
\* entities are assigned; self.lens_galaxies is read, self.source_galaxies
\* and the grids are read and the tracer is constructed; self.pixelization is
\* read, self.instrumentation is read and the likelihood is computed; the
\* likelihood is stored; self.likelihood is read back and returned
NextStatement(pc) ==
    CASE pc = "first" -> "second"
      [] pc = "second" -> "lens_galaxies"
      [] pc = "lens_galaxies" -> "tracer"
      [] pc = "tracer" -> "pixelization"
      [] pc = "pixelization" -> "likelihood"
      [] pc = "likelihood" -> "store"
      [] pc = "store" -> "return"
      [] OTHER -> "done"

\* the Run after the statement at pc of the call of the given number
AfterStatement(run, pc, caller, call) ==
    CASE pc = "first" /\ run.analysis = "model" ->
           [run EXCEPT !.lens_galaxies =
               Object("lens_galaxies", run.stage, caller, call.physical_values)]
      [] pc = "second" /\ run.analysis = "model" ->
           [run EXCEPT !.source_galaxies =
               Object("source_galaxies", run.stage, caller, call.physical_values)]
      [] pc = "first" /\ run.analysis = "hyper" ->
           [run EXCEPT !.pixelization =
               Object("pixelization", run.stage, caller, call.physical_values)]
      [] pc = "second" /\ run.analysis = "hyper" ->
           [run EXCEPT !.instrumentation =
               Object("instrumentation", run.stage, caller, call.physical_values)]
      [] pc = "store" ->
           [run EXCEPT !.calls = run.calls + 1, !.likelihood = call.likelihood]
      [] OTHER -> run

\* the call after its statement at pc, on the Run as the statement found it
CallAfterStatement(run, pc, call) ==
    CASE pc = "lens_galaxies" ->
           [call EXCEPT !.pc = NextStatement(pc), !.lens_galaxies = run.lens_galaxies]
      [] pc = "tracer" ->
           [call EXCEPT !.pc = NextStatement(pc), !.tracer =
               Tracer(call.lens_galaxies, run.source_galaxies, run.image_grid_collection)]
      [] pc = "pixelization" ->
           [call EXCEPT !.pc = NextStatement(pc), !.pixelization = run.pixelization]
      [] pc = "likelihood" ->
           [call EXCEPT !.pc = NextStatement(pc), !.likelihood =
               Likelihood(call.tracer, call.pixelization, run.instrumentation)]
      [] pc = "return" ->
           [call EXCEPT !.pc = NextStatement(pc), !.returned = ReturnedScore(run)]
      [] OTHER -> [call EXCEPT !.pc = NextStatement(pc)]

-----------------------------------------------------------------------------
(* The analyses constructed and their model mappers *)

\* the model mappers that exist when the module has been imported: the default
\* mm.ModelMapper() of ModelAnalysis.__init__ and the one of
\* HyperparameterAnalysis.__init__, each made once, when its def is executed
DefaultMapper(kind) == IF kind = "model" THEN 1 ELSE 2

\* a prior of a model mapper: its id, the name it is under and the analysis
\* whose construction put it there
MapperPrior(id, name, owner) == [id |-> id, name |-> name, owner |-> owner]

\* the names an analysis puts its priors under
AttachedNames(kind) ==
    IF kind = "model" THEN {"lens_galaxies", "source_galaxies"}
    ELSE {"pixelization", "instrumentation"}

\* the id the prior under the name gets, the names taken in their order
IdFor(next_id, name) ==
    IF name \in {"lens_galaxies", "pixelization"} THEN next_id ELSE next_id + 1

\* galaxy_prior.attach_to_model_mapper(model_mapper) for every galaxy prior,
\* and model_mapper.add_class(name, cls) for the two classes: what is under
\* the name is replaced
Attached(model_mapper, kind, owner, next_id) ==
    {p \in model_mapper : p.name \notin AttachedNames(kind)}
      \cup {MapperPrior(IdFor(next_id, name), name, owner) : name \in AttachedNames(kind)}

RECURSIVE priors_ordered_by_id(_)
\* model_mapper.priors_ordered_by_id
priors_ordered_by_id(model_mapper) ==
    IF model_mapper = {} THEN <<>>
    ELSE LET first == CHOOSE p \in model_mapper : \A q \in model_mapper : p.id <= q.id
         IN <<first>> \o priors_ordered_by_id(model_mapper \ {first})

\* the analyses constructed so far, every model mapper there is and the last
\* non_linear_optimizer.run(fitness_function, priors) call
Constructed(next_id, mappers, analyses, optimizer) ==
    [next_id |-> next_id, mappers |-> mappers, analyses |-> analyses,
     optimizer |-> optimizer]

NoOptimizerRun == [analysis |-> 0, priors |-> <<>>]

NoneConstructed == Constructed(1, <<{}, {}>>, <<>>, NoOptimizerRun)

\* ModelAnalysis.__init__ and HyperparameterAnalysis.__init__, with a new
\* mm.ModelMapper() as the model_mapper argument or without the argument
AfterInit(c, kind, explicit) ==
    LET mappers == IF explicit THEN Append(c.mappers, {}) ELSE c.mappers
        m == IF explicit THEN Len(mappers) ELSE DefaultMapper(kind)
        owner == Len(c.analyses) + 1
    IN Constructed(c.next_id + 2,
                   [mappers EXCEPT ![m] = Attached(mappers[m], kind, owner, c.next_id)],
                   Append(c.analyses, [kind |-> kind, model_mapper |-> m]),
                   c.optimizer)

\* ModelAnalysis.run and HyperparameterAnalysis.run, the optimizer call
AfterOptimizerRun(c, i) ==
    [c EXCEPT !.optimizer =
        [analysis |-> i,
         priors |-> priors_ordered_by_id(c.mappers[c.analyses[i].model_mapper])]]

-----------------------------------------------------------------------------
(* The mapper as a state machine *)

\* the priors a caller puts in place of a default one
PriorSpecs == { [kind |-> "g", p1 |-> 2, p2 |-> 5] }

Op(op, name, exc, vector) ==
    [op |-> op, name |-> name, exc |-> exc, vector |-> vector]


World == [parser |-> parser, num |-> prior_number, heap |-> heap, tuples |-> tuples]

Init ==
    /\ config \in Configs
    /\ parser = {}
    /\ prior_number = 0
    /\ heap = <<>>
    /\ tuples = <<>>
    /\ mapper = <<>>
    /\ reconstruction = NoReconstruction
    /\ lastOp = Op("init", "", FALSE, <<>>)
    /\ pipe = PipeIdle
    /\ generalized = NoAnalysis
    /\ lookup = NoLookup
    /\ evaluation = NoEvaluation
    /\ concurrent = NoConcurrent
    /\ constructed = NoneConstructed

\* collection.add_class(name, cls)
AddClass(name, cls) ==
    /\ \E enum \in EnumOrders(cls) :
         \E r \in {add_class(World, config, mapper, name, cls, enum)} :
           /\ r.w.num <= MaxPriors
           /\ parser' = r.w.parser
           /\ prior_number' = r.w.num
           /\ heap' = r.w.heap
           /\ tuples' = r.w.tuples
           /\ mapper' = r.mapper
           /\ lastOp' = Op("add_class", name, r.exc, <<>>)
    /\ reconstruction' = NoReconstruction
    /\ UNCHANGED <<config, pipe, generalized, lookup, evaluation, concurrent, constructed>>

\* collection.<name>.<arg> = UniformPrior(p1, p2) or GaussianPrior(p1, p2)
ReplacePrior(name, arg, spec) ==
    /\ name \in DOMAIN mapper
    /\ arg \in DOMAIN mapper[name].attrs
    /\ prior_number < MaxPriors
    /\ LET r == NewPrior(World, spec.kind, spec.p1, spec.p2) IN
         /\ prior_number' = r.w.num
         /\ heap' = r.w.heap
         /\ mapper' = [mapper EXCEPT ![name].attrs[arg] = r.slot]
    /\ lastOp' = Op("replace", "", FALSE, <<>>)
    /\ reconstruction' = NoReconstruction
    /\ UNCHANGED <<config, parser, tuples, pipe, generalized, lookup, evaluation, concurrent, constructed>>

\* collection.<name>.<arg> = collection.<other>.<from>
Tie(name, arg, other, from) ==
    /\ name \in DOMAIN mapper /\ other \in DOMAIN mapper
    /\ name # other
    /\ arg \in DOMAIN mapper[name].attrs
    /\ from \in DOMAIN mapper[other].attrs
    /\ mapper[other].attrs[from].t \in {"prior", "tuple"}
    /\ mapper' = [mapper EXCEPT ![name].attrs[arg] = mapper[other].attrs[from]]
    /\ lastOp' = Op("tie", "", FALSE, <<>>)
    /\ reconstruction' = NoReconstruction
    /\ UNCHANGED <<config, parser, prior_number, heap, tuples, pipe, generalized, lookup, evaluation, concurrent, constructed>>

\* collection.reconstruction_for_vector(vector), for the vectors an optimizer
\* may hand over given the current priors
Reconstruct ==
    /\ LET ps == priors(mapper, tuples, heap) IN
       \E vector \in VectorsFor(Len(ps)), order \in PriorModelOrders(mapper) :
         /\ reconstruction' = ReconstructionFor(ps, mapper, tuples, heap, vector, order)
         /\ lastOp' = Op("reconstruction_for_vector", "", FALSE, vector)
    /\ UNCHANGED <<config, parser, prior_number, heap, tuples, mapper, pipe, generalized, lookup, evaluation, concurrent, constructed>>

ArgNames == {"centre", "intensity", "radius"}

Next ==
    \/ \E name \in Names, cls \in Classes : AddClass(name, cls)
    \/ \E name \in Names, arg \in ArgNames, spec \in PriorSpecs :
         ReplacePrior(name, arg, spec)
    \/ \E name \in Names, other \in Names, arg \in ArgNames, from \in ArgNames :
         Tie(name, arg, other, from)
    \/ Reconstruct

Spec == Init /\ [][Next]_vars


-----------------------------------------------------------------------------
(* The pipeline as a state machine *)

\* MainPipeline.__init__ with a number of model analyses, then the entry of
\* MainPipeline.run: the two result lists are created empty
PipelineRun(analyses) ==
    /\ pipe.pc = "idle"
    /\ pipe' = Pipe("for", analyses, CallerPixelization, CallerInstrumentation,
                    <<>>, <<>>, ModelResult(NoRun), NoRun, <<>>, NoLikelihood)
    /\ UNCHANGED <<mapperVars, lastOp, generalized, lookup, evaluation, concurrent, constructed>>

\* the loop takes the next model analysis and calls its run, which builds the
\* grid and the Run and hands the fitness function to the optimizer
ModelAnalysisRun ==
    /\ pipe.pc = "for"
    /\ Len(pipe.model_results) < pipe.analyses
    /\ LET stage == NextStage(pipe.model_results)
           run == ModelRun(stage, from_mask("model", stage),
                           pipe.pixelization, pipe.instrumentation)
       IN pipe' = [pipe EXCEPT !.pc = "model", !.run = run,
                               !.calls = Append(pipe.calls, RunCall(run))]
    /\ UNCHANGED <<mapperVars, lastOp, generalized, lookup, evaluation, concurrent, constructed>>

\* the optimizer calls the fitness function, which returns a likelihood
FitnessFunction(physical_values) ==
    /\ pipe.pc \in {"model", "hyper"}
    /\ pipe.run.calls < MaxCalls
    /\ \E run \in {WithLikelihood(IF pipe.pc = "model"
                                   THEN ModelRebuilt(pipe.run, physical_values)
                                   ELSE HyperparameterRebuilt(pipe.run, physical_values))} :
         pipe' = [pipe EXCEPT !.run = run, !.score = ReturnedScore(run)]
    /\ UNCHANGED <<mapperVars, lastOp, generalized, lookup, evaluation, concurrent, constructed>>

\* the optimizer calls the fitness function and the tracer or the fit raises:
\* nothing on the way up catches it
FitnessFunctionRaises(physical_values) ==
    /\ pipe.pc \in {"model", "hyper"}
    /\ pipe.run.calls < MaxCalls
    /\ pipe' = [pipe EXCEPT !.pc = AfterError(pipe.pc), !.run =
           IF pipe.pc = "model"
           THEN ModelRebuilt(pipe.run, physical_values)
           ELSE HyperparameterRebuilt(pipe.run, physical_values)]
    /\ UNCHANGED <<mapperVars, lastOp, generalized, lookup, evaluation, concurrent, constructed>>

\* the model optimizer returns: the Result is taken from the Run and the
\* hyperparameter analysis is run on its galaxies
HyperparameterAnalysisRun ==
    /\ pipe.pc = "model"
    /\ LET model_result == ModelResult(pipe.run)
           analysed == AnalysedResult(model_result, pipe.model_result)
           run == HyperparameterRun(pipe.run.stage, from_mask("hyper", pipe.run.stage),
                                    analysed.lens_galaxies, analysed.source_galaxies)
       IN pipe' = [pipe EXCEPT !.pc = "hyper", !.model_result = model_result,
                               !.run = run,
                               !.calls = Append(pipe.calls, RunCall(run))]
    /\ UNCHANGED <<mapperVars, lastOp, generalized, lookup, evaluation, concurrent, constructed>>

\* the hyperparameter optimizer returns: the Result is taken from the Run, the
\* hyperparameters are updated and both results are appended
EndOfStage ==
    /\ pipe.pc = "hyper"
    /\ LET hyperparameter_result == HyperparameterResult(pipe.run) IN
       pipe' = [pipe EXCEPT
           !.pc = "for",
           !.pixelization = UpdatedPixelization(pipe.pixelization, hyperparameter_result),
           !.instrumentation =
               UpdatedInstrumentation(pipe.instrumentation, hyperparameter_result),
           !.model_results = Appended(pipe.model_results, pipe.model_result),
           !.hyperparameter_results =
               Appended(pipe.hyperparameter_results, hyperparameter_result)]
    /\ UNCHANGED <<mapperVars, lastOp, generalized, lookup, evaluation, concurrent, constructed>>

\* the loop is exhausted: the two lists are returned
PipelineReturn ==
    /\ pipe.pc = "for"
    /\ Len(pipe.model_results) = pipe.analyses
    /\ pipe' = [pipe EXCEPT !.pc = "returned"]
    /\ UNCHANGED <<mapperVars, lastOp, generalized, lookup, evaluation, concurrent, constructed>>

PipelineInit ==
    /\ config = ConfigScenario
    /\ parser = {}
    /\ prior_number = 0
    /\ heap = <<>>
    /\ tuples = <<>>
    /\ mapper = <<>>
    /\ reconstruction = NoReconstruction
    /\ lastOp = Op("init", "", FALSE, <<>>)
    /\ pipe = PipeIdle
    /\ generalized = NoAnalysis
    /\ lookup = NoLookup
    /\ evaluation = NoEvaluation
    /\ concurrent = NoConcurrent
    /\ constructed = NoneConstructed

PipelineNext ==
    \/ \E analyses \in 0..MaxStages : PipelineRun(analyses)
    \/ ModelAnalysisRun
    \/ \E physical_values \in PhysicalVectors : FitnessFunction(physical_values)
    \/ \E physical_values \in PhysicalVectors : FitnessFunctionRaises(physical_values)
    \/ HyperparameterAnalysisRun
    \/ EndOfStage
    \/ PipelineReturn

PipelineSpec == PipelineInit /\ [][PipelineNext]_vars

-----------------------------------------------------------------------------
(* The generalized Analysis as a state machine *)

\* Analysis(**kwargs) with any of the four model keywords
AnalysisConstruct(models) ==
    /\ generalized.pc = "none"
    /\ generalized' = AnalysisConstructed(models)
    /\ UNCHANGED <<mapperVars, pipe, lookup, evaluation, concurrent, constructed>>

\* analysis.run(image, mask, **kwargs) with any of the four instance keywords
AnalysisRun(instances) ==
    /\ generalized.pc \in {"constructed", "ran"}
    /\ generalized' = AnalysisRan(generalized, instances)
    /\ UNCHANGED <<mapperVars, pipe, lookup, evaluation, concurrent, constructed>>

AnalysisNext ==
    \/ \E models \in [RoleSet -> ModelValues] : AnalysisConstruct(models)
    \/ \E instances \in SUBSET RoleSet : AnalysisRun(instances)

AnalysisSpec == PipelineInit /\ [][AnalysisNext]_vars

-----------------------------------------------------------------------------
(* The config as a state machine *)

ConfigInit ==
    /\ config \in LookupConfigs
    /\ parser = {}
    /\ prior_number = 0
    /\ heap = <<>>
    /\ tuples = <<>>
    /\ mapper = <<>>
    /\ reconstruction = NoReconstruction
    /\ lastOp = Op("init", "", FALSE, <<>>)
    /\ pipe = PipeIdle
    /\ generalized = NoAnalysis
    /\ lookup = NoLookup
    /\ evaluation = NoEvaluation
    /\ concurrent = NoConcurrent
    /\ constructed = NoneConstructed

\* config.get_for_nearest_ancestor(cls, attribute_name)
GetForNearestAncestor(cls, attribute_name) ==
    /\ \E r \in {get_for_nearest_ancestor(parser, config, cls, attribute_name)} :
         /\ parser' = r.parser
         /\ lookup' = Lookup(cls, attribute_name, r)
    /\ UNCHANGED <<config, prior_number, heap, tuples, mapper, reconstruction,
                   lastOp, pipe, generalized, evaluation, concurrent, constructed>>

ConfigNext ==
    \E cls \in LookupClasses, attribute_name \in LookupAttributes :
        GetForNearestAncestor(cls, attribute_name)

ConfigSpec == ConfigInit /\ [][ConfigNext]_vars

-----------------------------------------------------------------------------
(* A UniformPrior on its own, as a state machine *)

\* UniformPrior(lower_limit, upper_limit): any two limits are accepted;
\* Prior.__init__ gives the id and advances prior_number
UniformInit ==
    /\ config = ConfigScenario
    /\ parser = {}
    /\ tuples = <<>>
    /\ mapper = <<>>
    /\ reconstruction = NoReconstruction
    /\ lastOp = Op("init", "", FALSE, <<>>)
    /\ pipe = PipeIdle
    /\ generalized = NoAnalysis
    /\ lookup = NoLookup
    /\ \E lower_limit \in Limits, upper_limit \in Limits :
         \E r \in {NewPrior(NewWorld, "u", lower_limit, upper_limit)} :
           /\ prior_number = r.w.num
           /\ heap = r.w.heap
           /\ evaluation = Evaluation(FALSE, r.slot.ref, 0, Num(0))
    /\ concurrent = NoConcurrent
    /\ constructed = NoneConstructed

\* prior.value_for(unit)
ValueFor(unit) ==
    /\ evaluation' = [evaluation EXCEPT !.called = TRUE, !.unit = unit,
                                        !.value = value_for(heap[evaluation.prior], unit)]
    /\ UNCHANGED <<mapperVars, pipe, generalized, lookup, concurrent, constructed>>

UniformNext == \E unit \in UnitSteps : ValueFor(unit)

UniformSpec == UniformInit /\ [][UniformNext]_vars

-----------------------------------------------------------------------------
(* Two fitness_function calls in flight, as a state machine *)

\* the Runs of one stage, of a model or a hyperparameter analysis, and two
\* calls of fitness_function not yet started, on one Run or on one each
ConcurrentInit ==
    /\ config = ConfigScenario
    /\ parser = {}
    /\ prior_number = 0
    /\ heap = <<>>
    /\ tuples = <<>>
    /\ mapper = <<>>
    /\ reconstruction = NoReconstruction
    /\ lastOp = Op("init", "", FALSE, <<>>)
    /\ pipe = PipeIdle
    /\ generalized = NoAnalysis
    /\ lookup = NoLookup
    /\ evaluation = NoEvaluation
    /\ \E shared \in BOOLEAN, run \in {ModelRun(1, from_mask("model", 1), CallerPixelization, CallerInstrumentation), HyperparameterRun(1, from_mask("hyper", 1), Object("lens_galaxies", 1, 0, 1), Object("source_galaxies", 1, 0, 1))} :
         concurrent = Concurrent(shared, <<run, run>>, [c \in Callers |-> NotCalled])
    /\ constructed = NoneConstructed

\* the optimizer calls fitness_function(physical_values) from one of its threads
EnterFitnessFunction(caller, physical_values) ==
    /\ concurrent.callers[caller].pc = "idle"
    /\ concurrent' = [concurrent EXCEPT !.callers[caller] =
           [NotCalled EXCEPT !.pc = "first", !.physical_values = physical_values]]
    /\ UNCHANGED <<mapperVars, pipe, generalized, lookup, evaluation, constructed>>

\* the call carries out its next statement
Statement(caller) ==
    /\ concurrent.callers[caller].pc \notin {"idle", "done"}
    /\ LET r == RunOf(concurrent.shared, caller)
           call == concurrent.callers[caller]
       IN concurrent' = [concurrent EXCEPT
              !.runs[r] = AfterStatement(concurrent.runs[r], call.pc, caller, call),
              !.callers[caller] =
                  CallAfterStatement(concurrent.runs[r], call.pc, call)]
    /\ UNCHANGED <<mapperVars, pipe, generalized, lookup, evaluation, constructed>>

ConcurrentNext ==
    \/ \E caller \in Callers, physical_values \in PhysicalVectors :
         EnterFitnessFunction(caller, physical_values)
    \/ \E caller \in Callers : Statement(caller)

ConcurrentSpec == ConcurrentInit /\ [][ConcurrentNext]_vars

-----------------------------------------------------------------------------
(* The analyses constructed, as a state machine *)

\* ModelAnalysis(lens_galaxy_priors, source_galaxy_priors[, model_mapper]) and
\* HyperparameterAnalysis(pixelization_class, instrumentation_class[, model_mapper])
ConstructAnalysis(kind, explicit) ==
    /\ Len(constructed.analyses) < MaxAnalyses
    /\ constructed' = AfterInit(constructed, kind, explicit)
    /\ UNCHANGED <<mapperVars, pipe, generalized, lookup, evaluation, concurrent>>

\* analysis.run(...) up to the call of the optimizer
OptimizerRun(i) ==
    /\ i \in DOMAIN constructed.analyses
    /\ constructed' = AfterOptimizerRun(constructed, i)
    /\ UNCHANGED <<mapperVars, pipe, generalized, lookup, evaluation, concurrent>>

ConstructedNext ==
    \/ \E kind \in {"model", "hyper"}, explicit \in BOOLEAN : ConstructAnalysis(kind, explicit)
    \/ \E i \in 1..MaxAnalyses : OptimizerRun(i)

ConstructedSpec == PipelineInit /\ [][ConstructedNext]_vars


-----------------------------------------------------------------------------
(* What the claims speak of, read off the state directly *)

\* the places of the mapper that hold a Prior: <<name, arg, 0>> for a direct
\* attribute, <<name, arg, i>> for element i - 1 of a TuplePrior attribute
Holdings ==
    { h \in (DOMAIN mapper) \X ArgNames \X (0..3) :
        /\ h[2] \in DOMAIN mapper[h[1]].attrs
        /\ LET slot == mapper[h[1]].attrs[h[2]] IN
           \/ h[3] = 0 /\ slot.t = "prior"
           \/ /\ h[3] > 0 /\ slot.t = "tuple"
              /\ h[3] <= Len(tuples[slot.ref].elems)
              /\ tuples[slot.ref].elems[h[3]].t = "prior" }

\* the Prior object a holding holds
HeldAt(h) ==
    LET slot == mapper[h[1]].attrs[h[2]] IN
    IF h[3] = 0 THEN heap[slot.ref] ELSE heap[tuples[slot.ref].elems[h[3]].ref]

HeldIds == { HeldAt(h).id : h \in Holdings }

HoldingsOf(id) == { h \in Holdings : HeldAt(h).id = id }

CurrentPriors == priors(mapper, tuples, heap)

\* the position in `priors` of the Prior with this id
PositionOf(id) ==
    CHOOSE k \in 1..Len(CurrentPriors) : heap[CurrentPriors[k]].id = id

CalledReconstruction == lastOp.op = "reconstruction_for_vector"

\* no attribute of a PriorModel is None
AllRepresented ==
    \A name \in DOMAIN mapper : \A a \in DOMAIN mapper[name].attrs :
        /\ mapper[name].attrs[a].t # "none"
        /\ mapper[name].attrs[a].t = "tuple" =>
             \A i \in 1..Len(tuples[mapper[name].attrs[a].ref].elems) :
                 tuples[mapper[name].attrs[a].ref].elems[i].t = "prior"

\* what the claims expect a constructor argument to receive for the vector
ExpectedFor(h, vector) == value_for(HeldAt(h), vector[PositionOf(HeldAt(h).id)])

ExpectedArgument(name, a, vector) ==
    IF mapper[name].attrs[a].t = "prior" THEN ExpectedFor(<<name, a, 0>>, vector)
    ELSE [i \in 1..Len(tuples[mapper[name].attrs[a].ref].elems) |->
              ExpectedFor(<<name, a, i>>, vector)]

-----------------------------------------------------------------------------
(* Claims *)

\* C1: after any sequence of add_class calls, prior replacements and ties,
\* `priors` lists every distinct Prior (by id) held by a PriorModel, directly
\* or inside a TuplePrior, exactly once and in strictly ascending id order.
C1_PriorsUniqueAscending ==
    /\ { heap[CurrentPriors[k]].id : k \in 1..Len(CurrentPriors) } = HeldIds
    /\ \A i, j \in 1..Len(CurrentPriors) :
           i < j => heap[CurrentPriors[i]].id < heap[CurrentPriors[j]].id

\* a Prior is held by both PriorModels, and a replaced Prior (with an id
\* greater than that of a TuplePrior element created before) is listed
C1_Witness ==
    /\ \E h, g \in Holdings : h[1] # g[1] /\ HeldAt(h).id = HeldAt(g).id
    /\ \E h, g \in Holdings : h[3] = 0 /\ g[3] > 0 /\ HeldAt(h).id > HeldAt(g).id
    /\ Len(CurrentPriors) >= 3

\* C2: for every vector as long as `priors`, reconstruction_for_vector
\* succeeds and gives each constructor argument the value
\* priors[i].value_for(vector[i]) of the Prior bound to it, tuple arguments
\* element by element.
C2_ArgumentsFollowPriors ==
    (CalledReconstruction /\ AllRepresented
        /\ Len(lastOp.vector) = Len(CurrentPriors)) =>
      /\ reconstruction.status = "ok"
      /\ \A name \in DOMAIN mapper :
           /\ name \in DOMAIN reconstruction.attrs
           /\ \A a \in DOMAIN mapper[name].attrs :
                /\ a \in DOMAIN reconstruction.attrs[name].kwargs
                /\ reconstruction.attrs[name].kwargs[a]
                     = ExpectedArgument(name, a, lastOp.vector)

\* C3: a vector shorter or longer than `priors` makes
\* reconstruction_for_vector fail while it pairs priors with units: no class
\* is instantiated and no attribute is set on a Reconstruction.
C3_WrongLengthFails ==
    (CalledReconstruction /\ Len(lastOp.vector) # Len(CurrentPriors)) =>
      /\ reconstruction.status = "TypeError"
      /\ reconstruction.made = 0
      /\ DOMAIN reconstruction.attrs = {}

\* a vector one unit short was handed to a mapper of two PriorModels
C3_Witness ==
    /\ CalledReconstruction
    /\ DOMAIN mapper = Names
    /\ Len(CurrentPriors) >= 2
    /\ Len(lastOp.vector) = Len(CurrentPriors) - 1
    /\ reconstruction.status = "TypeError"

RECURSIVE NaiveOver(_)
\* the sum of len(prior_model.priors) over the PriorModels named
NaiveOver(names) ==
    IF names = {} THEN 0
    ELSE LET n == CHOOSE n \in names : TRUE IN
         Len(PriorModelPriors(mapper[n], tuples)) + NaiveOver(names \ {n})

NaiveTotal == NaiveOver(DOMAIN mapper)

\* the Priors held in more than one place
SharedIds == { id \in HeldIds : Cardinality(HoldingsOf(id)) >= 2 }

RECURSIVE SurplusOver(_)
\* for the Priors named, the places that hold them beyond the first
SurplusOver(ids) ==
    IF ids = {} THEN 0
    ELSE LET id == CHOOSE id \in ids : TRUE IN
         (Cardinality(HoldingsOf(id)) - 1) + SurplusOver(ids \ {id})

\* C4 as stated: after a tie, len(priors) is the naive total minus the
\* number of Priors now shared.
C4_TieReducesBySharedCount ==
    lastOp.op = "tie" =>
        Len(CurrentPriors) = NaiveTotal - Cardinality(SharedIds)

\* C4 as amended: after a tie, len(priors) is the naive total minus, for each
\* shared Prior, the number of places holding it beyond the first (one for a
\* scalar tie and the arity for a TuplePrior tie when each is held twice).
C4_TieReducesBySurplus ==
    lastOp.op = "tie" =>
        Len(CurrentPriors) = NaiveTotal - SurplusOver(SharedIds)

\* a tie left a Prior held in three places
C4_Witness ==
    /\ lastOp.op = "tie"
    /\ \E id \in SharedIds : Cardinality(HoldingsOf(id)) >= 3

\* C5: when two PriorModels hold the same Prior object for some argument,
\* every reconstruction gives both instances the identical value for it.
C5_SharedPriorSameValue ==
    (CalledReconstruction /\ reconstruction.status = "ok") =>
      \A h, g \in Holdings :
        (h[1] # g[1] /\ h[3] = 0 /\ g[3] = 0 /\ HeldAt(h).id = HeldAt(g).id) =>
          /\ h[2] \in DOMAIN reconstruction.attrs[h[1]].kwargs
          /\ g[2] \in DOMAIN reconstruction.attrs[g[1]].kwargs
          /\ reconstruction.attrs[h[1]].kwargs[h[2]]
               = reconstruction.attrs[g[1]].kwargs[g[2]]

\* two instances were rebuilt from a vector of differing units while a Prior
\* was held by both PriorModels, next to at least one more Prior
C5_Witness ==
    /\ CalledReconstruction /\ reconstruction.status = "ok"
    /\ Len(CurrentPriors) >= 2
    /\ \E i, j \in 1..Len(lastOp.vector) : lastOp.vector[i] # lastOp.vector[j]
    /\ \E h, g \in Holdings :
         h[1] # g[1] /\ h[3] = 0 /\ g[3] = 0 /\ HeldAt(h).id = HeldAt(g).id

\* the arguments dict of the last reconstruction_for_vector call
LastArguments == DictOf(ArgumentPairs(CurrentPriors, lastOp.vector, 1, heap).pairs)

\* C6: TuplePrior.value_for_arguments returns the resolved values of its
\* Priors in element-index order, whatever order its attributes are
\* enumerated in.
C6_TupleInIndexOrder ==
    (CalledReconstruction /\ Len(lastOp.vector) = Len(CurrentPriors)) =>
      \A h \in Holdings : h[3] > 0 =>
        LET tp == tuples[mapper[h[1]].attrs[h[2]].ref]
            v == value_for_arguments(tp, LastArguments, heap)
        IN (\A i \in 1..Len(tp.elems) : tp.elems[i].t = "prior") =>
             /\ v.exc = ""
             /\ Len(v.value) = Len(tp.elems)
             /\ v.value[h[3]] = LastArguments[HeldAt(h).id]

\* C7: after every successful add_class(name, cls) the stored PriorModel has,
\* for every parameter of cls after self, a TuplePrior of n Priors when the
\* default is a tuple of arity n, and a single Prior otherwise.
C7_EveryParameterRepresented ==
    (lastOp.op = "add_class" /\ ~lastOp.exc) =>
      /\ lastOp.name \in DOMAIN mapper
      /\ LET pm == mapper[lastOp.name]
             d == ClassDef(pm.cls)
         IN \A k \in 2..Len(d.args) :
              /\ d.args[k] \in DOMAIN pm.attrs
              /\ IF DefaultOf(d, k).tuple
                 THEN /\ pm.attrs[d.args[k]].t = "tuple"
                      /\ Len(tuples[pm.attrs[d.args[k]].ref].elems)
                           = DefaultOf(d, k).arity
                      /\ \A i \in 1..DefaultOf(d, k).arity :
                           tuples[pm.attrs[d.args[k]].ref].elems[i].t = "prior"
                 ELSE pm.attrs[d.args[k]].t = "prior"

\* the Priors of a PriorModel have ids ascending in the order of the
\* constructor's parameters, tuple elements in index order
InConstructorOrder(name) ==
    \A h, g \in { h \in Holdings : h[1] = name } :
        LET d == ClassDef(mapper[name].cls)
            kh == CHOOSE k \in 2..Len(d.args) : d.args[k] = h[2]
            kg == CHOOSE k \in 2..Len(d.args) : d.args[k] = g[2]
        IN (kh < kg \/ (kh = kg /\ h[3] < g[3])) => HeldAt(h).id < HeldAt(g).id

\* the mapper holds one PriorModel, of Light, with the priors the scenario's
\* config gives it
ScenarioMapper ==
    /\ config = ConfigScenario
    /\ Cardinality(DOMAIN mapper) = 1
    /\ \A name \in DOMAIN mapper :
         /\ mapper[name].cls = "Light"
         /\ InConstructorOrder(name)
         /\ mapper[name].attrs["centre"].t = "tuple"
         /\ mapper[name].attrs["intensity"].t = "prior"
         /\ HeldAt(<<name, "centre", 1>>) # HeldAt(<<name, "centre", 2>>)
         /\ \A h \in Holdings :
              /\ HeldAt(h).kind = "u"
              /\ h[3] > 0 => HeldAt(h).p1 = -1 /\ HeldAt(h).p2 = 1
              /\ h[3] = 0 => HeldAt(h).p1 = 0 /\ HeldAt(h).p2 = 5

\* C8: in the scenario `priors` has length 3 and
\* reconstruction_for_vector([0.5, 0.5, 0.2]) yields centre = (0.0, 0.0) and
\* intensity = 1.0; the Priors of one add_class call take the vector's
\* positions in constructor-parameter order, tuple elements in index order.
C8_Scenario ==
    /\ (lastOp.op = "add_class" /\ ~lastOp.exc) => InConstructorOrder(lastOp.name)
    /\ ScenarioMapper => Len(CurrentPriors) = 3
    /\ (ScenarioMapper /\ CalledReconstruction /\ lastOp.vector = ScenarioVector) =>
         /\ reconstruction.status = "ok"
         /\ \A name \in DOMAIN mapper :
              /\ reconstruction.attrs[name].cls = "Light"
              /\ reconstruction.attrs[name].kwargs["centre"] = <<Num(0), Num(0)>>
              /\ reconstruction.attrs[name].kwargs["intensity"] = Num(1000)

\* the scenario's vector was handed to the scenario's mapper
C8_Witness ==
    /\ ScenarioMapper
    /\ CalledReconstruction /\ lastOp.vector = ScenarioVector
    /\ reconstruction.status = "ok"

\* C9: every Prior gets an id greater than the id of every Prior created
\* before it, the next id is greater still, and two Prior objects compare
\* equal exactly when they are one object, whatever their bounds.
C9_IdsIncreaseEqualityById ==
    /\ \A i, j \in 1..Len(heap) : i < j => heap[i].id < heap[j].id
    /\ \A i \in 1..Len(heap) : heap[i].id < NewId(prior_number)
    /\ \A i, j \in 1..Len(heap) :
         /\ PriorEq(heap[i], heap[j]) <=> (i = j)
         /\ PriorEq(heap[i], heap[j]) <=> (heap[i].id = heap[j].id)

\* two Priors of the same kind and bounds exist, and a third one
C9_Witness ==
    /\ Len(heap) >= 3
    /\ \E i, j \in 1..Len(heap) :
         /\ i # j
         /\ heap[i].kind = heap[j].kind
         /\ heap[i].p1 = heap[j].p1 /\ heap[i].p2 = heap[j].p2


\* the calls of ModelAnalysis.run the pipeline has made so far
ModelCalls == { i \in DOMAIN pipe.calls : pipe.calls[i].analysis = "model" }

\* C10: the first model analysis runs with the caller's pixelization and
\* instrumentation, and the model analysis of stage k + 1 runs with exactly
\* the pixelization and instrumentation of the hyperparameter result of
\* stage k.
C10_StagesChainHyperparameters ==
    \A i \in ModelCalls :
        LET c == pipe.calls[i] IN
        IF c.stage = 1
        THEN /\ c.pixelization = CallerPixelization
             /\ c.instrumentation = CallerInstrumentation
        ELSE /\ c.stage - 1 \in DOMAIN pipe.hyperparameter_results
             /\ c.pixelization = pipe.hyperparameter_results[c.stage - 1].pixelization
             /\ c.instrumentation =
                    pipe.hyperparameter_results[c.stage - 1].instrumentation

\* a pipeline of two stages has returned, the hyperparameter analysis of stage
\* 1 having rebuilt the pixelization and the instrumentation
C10_Witness ==
    /\ pipe.pc = "returned"
    /\ \E i \in ModelCalls : pipe.calls[i].stage = 2
    /\ pipe.hyperparameter_results[1].pixelization.kind = "pixelization"
    /\ pipe.hyperparameter_results[1].pixelization # CallerPixelization
    /\ pipe.hyperparameter_results[1].instrumentation # CallerInstrumentation

\* the calls of HyperparameterAnalysis.run the pipeline has made so far
HyperparameterCalls == { i \in DOMAIN pipe.calls : pipe.calls[i].analysis = "hyper" }

\* the model result of a stage whose model analysis has returned
StageModelResult(k) ==
    IF k \in DOMAIN pipe.model_results THEN pipe.model_results[k] ELSE pipe.model_result

\* C11: the hyperparameter analysis of each stage is run with exactly the lens
\* galaxies and the source galaxies of the model result of the same stage.
C11_HyperparameterGetsStageGalaxies ==
    \A i \in HyperparameterCalls :
        LET c == pipe.calls[i] IN
        /\ c.lens_galaxies = StageModelResult(c.stage).lens_galaxies
        /\ c.source_galaxies = StageModelResult(c.stage).source_galaxies
        /\ \A k \in DOMAIN pipe.model_results :
             (k # c.stage /\ pipe.model_results[k].lens_galaxies # EmptyList
                 /\ c.lens_galaxies # EmptyList)
               => c.lens_galaxies # pipe.model_results[k].lens_galaxies

\* the hyperparameter analysis of stage 2 was run on galaxies the model
\* analysis of stage 2 rebuilt, stage 1 having rebuilt its own
C11_Witness ==
    \E i \in HyperparameterCalls :
        /\ pipe.calls[i].stage = 2
        /\ pipe.calls[i].lens_galaxies.kind = "lens_galaxies"
        /\ pipe.calls[i].lens_galaxies.stage = 2
        /\ pipe.model_results[1].lens_galaxies.kind = "lens_galaxies"

\* an entity is one a Run of stage k held: what the Run started with or what a
\* fitness call of that stage rebuilt
OfStage(entity, k) == entity \in {EmptyList, NoneObject} \/ entity.stage = k

\* a likelihood is one a Run of stage k recorded
LikelihoodOfStage(likelihood, k) ==
    likelihood.known => likelihood.tracer.image_grid_collection.stage = k

\* C12: when MainPipeline.run returns for a pipeline of n model analyses, both
\* lists have exactly n entries and the k-th entry of each is the result of the
\* k-th stage.
C12_ResultListsAligned ==
    pipe.pc = "returned" =>
      /\ Len(pipe.model_results) = pipe.analyses
      /\ Len(pipe.hyperparameter_results) = pipe.analyses
      /\ \A k \in 1..pipe.analyses :
           /\ OfStage(pipe.model_results[k].lens_galaxies, k)
           /\ OfStage(pipe.model_results[k].source_galaxies, k)
           /\ LikelihoodOfStage(pipe.model_results[k].likelihood, k)
           /\ OfStage(pipe.hyperparameter_results[k].pixelization, k)
           /\ OfStage(pipe.hyperparameter_results[k].instrumentation, k)
           /\ LikelihoodOfStage(pipe.hyperparameter_results[k].likelihood, k)
           /\ \E i \in ModelCalls : pipe.calls[i].stage = k
           /\ \E i \in HyperparameterCalls : pipe.calls[i].stage = k

\* a pipeline of two model analyses has returned, every analysis having
\* rebuilt its entities
C12_Witness ==
    /\ pipe.pc = "returned"
    /\ pipe.analyses = 2
    /\ \A k \in 1..2 :
         /\ pipe.model_results[k].lens_galaxies.kind = "lens_galaxies"
         /\ pipe.hyperparameter_results[k].pixelization.kind = "pixelization"
         /\ pipe.model_results[k].likelihood.known

\* the calls made so far are model 1, hyper 1, model 2, hyper 2, ...
CallsInStageOrder ==
    \A i \in DOMAIN pipe.calls :
        /\ pipe.calls[i].analysis = IF i % 2 = 1 THEN "model" ELSE "hyper"
        /\ pipe.calls[i].stage = (i + 1) \div 2

\* a run starts only from the loop's head or as the model analysis returns,
\* its Result taken, and it is the only run in progress
StartsAfterReturn ==
    Len(pipe'.calls) # Len(pipe.calls) =>
      /\ Len(pipe'.calls) = Len(pipe.calls) + 1
      /\ pipe.pc \in {"for", "model"}
      /\ pipe.pc = "model" => pipe'.model_result = ModelResult(pipe.run)
      /\ pipe'.run.calls = 0

\* C13: each model analysis and each stage's hyperparameter analysis is run
\* exactly once, in the order model 1, hyper 1, model 2, hyper 2, ...; a run
\* never starts before the preceding one has returned.
C13_SinglePassInOrder ==
    /\ [](CallsInStageOrder
          /\ (pipe.pc = "returned" => Len(pipe.calls) = 2 * pipe.analyses))
    /\ [][StartsAfterReturn]_vars

\* the hyperparameter analysis of the second stage is running
C13_Witness ==
    /\ pipe.pc = "hyper"
    /\ Len(pipe.calls) = 4
    /\ pipe.run.calls > 0

\* a step in which an analysis raises
AnalysisRaises == \E physical_values \in PhysicalVectors : FitnessFunctionRaises(physical_values)

\* the error leaves MainPipeline.run at once: no run is started and no result
\* is appended by the failing step
PropagatesAtOnce ==
    AnalysisRaises =>
      /\ pipe'.pc = "raised"
      /\ pipe'.calls = pipe.calls
      /\ pipe'.model_results = pipe.model_results
      /\ pipe'.hyperparameter_results = pipe.hyperparameter_results

\* C14: an error raised by a model or hyperparameter analysis propagates to
\* the caller of MainPipeline.run at once: the failed analysis is not retried,
\* no later analysis is run and no result lists are returned.
C14_ErrorsPropagate ==
    /\ [][PropagatesAtOnce /\ (pipe.pc = "raised" => pipe' = pipe)]_vars
    /\ [](pipe.pc = "raised" => ~ENABLED PipelineNext)

\* the model analysis of the second stage raised, the first stage's results
\* being in the lists
C14_Witness ==
    /\ pipe.pc = "raised"
    /\ pipe.run.analysis = "model"
    /\ Len(pipe.calls) = 3
    /\ Len(pipe.model_results) = 1

\* C15 as stated: an Analysis in which some role has both a model and an
\* instance, or neither, is never constructed: the constructor fails.
C15_RejectedAtConstruction ==
    generalized.pc \in {"constructed", "ran"} =>
      \A role \in RoleSet :
          (generalized.models[role] = "truthy") # (role \in generalized.instances)

\* an optimizer is running an analysis
InRun == pipe.pc \in {"model", "hyper"}

\* what the Run holds is what the last fitness call of its stage recorded: the
\* entities that call rebuilt and the likelihood computed from them
HoldsLastCall(run) ==
    /\ run.likelihood.known
    /\ run.likelihood.tracer.lens_galaxies = run.lens_galaxies
    /\ run.likelihood.tracer.source_galaxies = run.source_galaxies
    /\ run.likelihood.pixelization = run.pixelization
    /\ run.likelihood.instrumentation = run.instrumentation
    /\ IF run.analysis = "model"
       THEN /\ run.lens_galaxies.stage = run.stage
            /\ run.lens_galaxies.call = run.calls
            /\ run.source_galaxies.call = run.calls
       ELSE /\ run.pixelization.stage = run.stage
            /\ run.pixelization.call = run.calls
            /\ run.instrumentation.call = run.calls

\* the Result made as an analysis' run returns carries what its Run holds
ResultCarriesRun ==
    /\ (pipe.pc = "model" /\ pipe'.pc = "hyper") =>
         /\ pipe'.model_result.likelihood = pipe.run.likelihood
         /\ pipe'.model_result.lens_galaxies = pipe.run.lens_galaxies
         /\ pipe'.model_result.source_galaxies = pipe.run.source_galaxies
    /\ (pipe.pc = "hyper" /\ pipe'.pc = "for") =>
         LET result == pipe'.hyperparameter_results[Len(pipe'.hyperparameter_results)] IN
         /\ result.likelihood = pipe.run.likelihood
         /\ result.pixelization = pipe.run.pixelization
         /\ result.instrumentation = pipe.run.instrumentation

\* C16: every fitness_function call returns the score it recorded in the Run,
\* and the Result an analysis' run returns carries exactly the likelihood and
\* the entities recorded by the last fitness_function call of that stage.
C16_ResultIsLastCall ==
    /\ []((InRun /\ pipe.run.calls > 0) =>
            (pipe.score = pipe.run.likelihood /\ HoldsLastCall(pipe.run)))
    /\ [][ResultCarriesRun]_vars

\* the model analysis of a stage returned after two fitness calls: its Result
\* holds the galaxies and the likelihood of the second
C16_Witness ==
    /\ pipe.pc = "hyper"
    /\ pipe.model_result.lens_galaxies.kind = "lens_galaxies"
    /\ pipe.model_result.lens_galaxies.call = 2
    /\ pipe.model_result.likelihood.known
    /\ pipe.model_result.likelihood.tracer.lens_galaxies = pipe.model_result.lens_galaxies

\* a step leaves every Result the pipeline already holds as it is
ResultsKept ==
    /\ \A k \in DOMAIN pipe.model_results :
         /\ k \in DOMAIN pipe'.model_results
         /\ pipe'.model_results[k] = pipe.model_results[k]
    /\ \A k \in DOMAIN pipe.hyperparameter_results :
         /\ k \in DOMAIN pipe'.hyperparameter_results
         /\ pipe'.hyperparameter_results[k] = pipe.hyperparameter_results[k]
    /\ (pipe.pc = "hyper" /\ pipe'.pc # "raised") =>
         /\ pipe'.pc = "hyper" => pipe'.model_result = pipe.model_result
         /\ pipe'.pc = "for" =>
              pipe'.model_results[Len(pipe'.model_results)] = pipe.model_result

\* C17: once a stage's Result has been returned to the pipeline, its
\* likelihood and its entities are never changed by a later stage, although
\* the one HyperparameterAnalysis is run again for every stage.
C17_ResultsNeverChange == [][ResultsKept]_vars

\* the hyperparameter analysis of stage 2 has rebuilt its pixelization while
\* the Result of stage 1 holds the one stage 1 rebuilt
C17_Witness ==
    /\ pipe.pc \in {"for", "returned"}
    /\ Len(pipe.hyperparameter_results) = 2
    /\ pipe.hyperparameter_results[1].pixelization.stage = 1
    /\ pipe.hyperparameter_results[2].pixelization.stage = 2
    /\ pipe.hyperparameter_results[1].likelihood # pipe.hyperparameter_results[2].likelihood

\* the entries a class has for an attribute under its own declaring module
\* and class name: those of the module's file, under the class' section
OwnEntries(cls, attribute_name) ==
    IF LastComponent(ClassDef(cls).module) \notin DOMAIN config THEN {}
    ELSE { e \in config[LastComponent(ClassDef(cls).module)] :
               e.section = ClassDef(cls).name /\ e.option = attribute_name }

\* the positions, in the pre-order of the class and its ancestors, of the
\* classes that have an entry of their own
WithOwnEntry(cls, attribute_name) ==
    { i \in DOMAIN family(cls) : OwnEntries(family(cls)[i], attribute_name) # {} }

\* the first class of the pre-order that has an entry of its own
FirstWithOwnEntry(cls, attribute_name) ==
    family(cls)[CHOOSE i \in WithOwnEntry(cls, attribute_name) :
                    \A j \in WithOwnEntry(cls, attribute_name) : i <= j]

CalledLookup == lookup.attribute_name # ""

\* C18: get_for_nearest_ancestor returns the entry of the first class, in
\* depth-first pre-order over cls and its bases in declaration order, that
\* has an entry for the attribute under its own declaring module and class
\* name.
C18_NearestAncestorEntry ==
    (CalledLookup /\ WithOwnEntry(lookup.cls, lookup.attribute_name) # {}) =>
      /\ lookup.found
      /\ \E e \in OwnEntries(FirstWithOwnEntry(lookup.cls, lookup.attribute_name),
                             lookup.attribute_name) :
             lookup.arr = PriorArray(e)

\* C19: get_for_nearest_ancestor fails with a configuration error naming the
\* requested class and the attribute whenever neither the class nor any
\* ancestor has an entry for the attribute; it returns nothing then.
C19_NoEntryFails ==
    (CalledLookup /\ WithOwnEntry(lookup.cls, lookup.attribute_name) = {}) =>
      /\ ~lookup.found
      /\ lookup.arr = <<>>
      /\ lookup.named = <<ClassDef(lookup.cls).module, ClassDef(lookup.cls).name,
                          lookup.attribute_name>>

\* the ids of the Priors a PriorModel holds, directly or in a TuplePrior
IdsOf(pm, tps, hp) ==
    { hp[PriorModelPriors(pm, tps)[k]].id : k \in 1..Len(PriorModelPriors(pm, tps)) }

\* the ids `priors` lists
ListedIds(m, tps, hp) ==
    { hp[priors(m, tps, hp)[k]].id : k \in 1..Len(priors(m, tps, hp)) }

\* a step that is a successful add_class(name, cls) under a name already
\* present replaces the PriorModel of that name alone, by one that has the
\* arguments of its class and Priors of its own, and the Priors of the
\* replaced one stay listed only where another PriorModel holds them
Overwrites ==
    (lastOp'.op = "add_class" /\ ~lastOp'.exc /\ lastOp'.name \in DOMAIN mapper) =>
      /\ DOMAIN mapper' = DOMAIN mapper
      /\ DOMAIN mapper'[lastOp'.name].attrs =
             { ClassDef(mapper'[lastOp'.name].cls).args[k] :
                 k \in 2..Len(ClassDef(mapper'[lastOp'.name].cls).args) }
      /\ \A other \in DOMAIN mapper :
             other # lastOp'.name => mapper'[other] = mapper[other]
      /\ IdsOf(mapper'[lastOp'.name], tuples', heap')
             \cap IdsOf(mapper[lastOp'.name], tuples, heap) = {}
      /\ \A id \in IdsOf(mapper'[lastOp'.name], tuples', heap') : id >= prior_number
      /\ ListedIds(mapper', tuples', heap') \cap IdsOf(mapper[lastOp'.name], tuples, heap)
           \subseteq UNION { IdsOf(mapper[other], tuples, heap) :
                               other \in DOMAIN mapper \ {lastOp'.name} }

\* C20: add_class with a name already present overwrites: the mapper then
\* holds one PriorModel under that name, built for the new class, and
\* `priors` no longer lists the Priors of the replaced PriorModel unless
\* another PriorModel still holds them.
C20_AddClassOverwrites == [][Overwrites]_vars

\* a Light was added under the name of a Disk: the mapper holds the Light
\* alone and lists its three Priors, the Disk's Prior having been created first
C20_Witness ==
    /\ lastOp.op = "add_class" /\ ~lastOp.exc
    /\ config = ConfigScenario
    /\ DOMAIN mapper = {"one"}
    /\ mapper["one"].cls = "Light"
    /\ prior_number = 4
    /\ Len(CurrentPriors) = 3
    /\ heap[1].kind = "g"

\* value_for of the prior is non-decreasing in unit over [0, 1]
NonDecreasing(p) ==
    \A u1, u2 \in UnitSteps : u1 <= u2 => value_for(p, u1).x <= value_for(p, u2).x

\* the UniformPrior made on its own
ThePrior == heap[evaluation.prior]

\* value_for(0) is the lower limit and value_for(1) the upper limit
EndsAtLimits ==
    /\ (evaluation.called /\ evaluation.unit = 0) =>
         evaluation.value = Num(ThePrior.p1 * 1000)
    /\ (evaluation.called /\ evaluation.unit = 10) =>
         evaluation.value = Num(ThePrior.p2 * 1000)

\* C21 as stated: for every UniformPrior(lo, hi) that can be constructed,
\* value_for(0) = lo, value_for(1) = hi and value_for is monotonic
\* non-decreasing in unit over [0, 1].
C21_UniformMonotonic ==
    /\ EndsAtLimits
    /\ NonDecreasing(ThePrior)

\* the role was given a model keyword at construction, whatever its value
Registered(role) == generalized.models[role] # "absent"

\* the roles in the order run checks them, up to the first one for which the
\* test fails
FirstFailing(Test(_)) ==
    LET failing == {i \in DOMAIN Roles : ~Test(Roles[i])}
    IN IF failing = {} THEN ""
       ELSE Roles[CHOOSE i \in failing : \A j \in failing : i <= j]

\* exactly one of a registered model and an instance passed to run
OneRegistered(role) == Registered(role) # (role \in generalized.instances)

\* exactly one of a model Python takes as true and an instance passed to run
OneTrue(role) == (generalized.models[role] = "truthy") # (role \in generalized.instances)

\* C22 as stated: Analysis.run raises exactly when some role does not have
\* exactly one of a model registered at construction and an instance passed to
\* run, and the error is for the first such role in the order pixelization,
\* instrumentation, lens galaxies, source galaxies.
C22_RaisesForFirstRole ==
    generalized.pc = "ran" =>
      /\ (generalized.exc # "") <=> (\E role \in RoleSet : ~OneRegistered(role))
      /\ generalized.offending = FirstFailing(OneRegistered)

\* C22 as the code has it: a registered model counts only if Python takes it
\* as true (None and an empty list do not). Analysis.run raises exactly when
\* some role does not have exactly one of such a model and an instance passed
\* to run, and the error is for the first such role in the order pixelization,
\* instrumentation, lens galaxies, source galaxies.
C22_RaisesForFirstTrueRole ==
    generalized.pc = "ran" =>
      /\ (generalized.exc # "") <=> (\E role \in RoleSet : ~OneTrue(role))
      /\ generalized.offending = FirstFailing(OneTrue)

\* run was refused for instrumentation, which had neither, although lens
\* galaxies, checked later, had both
C22_Witness ==
    /\ generalized.pc = "ran"
    /\ OneTrue("pixelization")
    /\ generalized.models["instrumentation"] = "absent"
    /\ "instrumentation" \notin generalized.instances
    /\ generalized.models["lens_galaxies"] = "truthy"
    /\ "lens_galaxies" \in generalized.instances
    /\ generalized.exc = "AssertionError"
    /\ generalized.offending = "instrumentation"

\* a step in which ModelAnalysis.run or HyperparameterAnalysis.run starts
RunStarts == pipe'.pc \in {"model", "hyper"} /\ pipe'.pc # pipe.pc

\* a step in which the optimizer calls the fitness function of the Run
Evaluates == InRun /\ pipe'.run.calls = pipe.run.calls + 1

\* the grids are built when the run starts, before any fitness evaluation
GridsBuiltAtStart ==
    RunStarts =>
      /\ pipe'.run.image_grid_collection = from_mask(pipe'.pc, pipe'.run.stage)
      /\ pipe'.run.calls = 0
      /\ ~pipe'.run.likelihood.known

\* a fitness evaluation builds no grids: it leaves the Run's grid collection
\* alone and traces through it
GridsReused ==
    Evaluates =>
      /\ pipe'.run.image_grid_collection = pipe.run.image_grid_collection
      /\ pipe'.run.likelihood # pipe.run.likelihood =>
           pipe'.run.likelihood.tracer.image_grid_collection =
               pipe.run.image_grid_collection

\* C23: in every ModelAnalysis.run and HyperparameterAnalysis.run the grids
\* are built from the mask exactly once, before the optimizer is started, and
\* every fitness evaluation of that stage uses that same grid collection.
C23_GridsBuiltOnce == [][GridsBuiltAtStart /\ GridsReused]_vars

\* the second fitness evaluation of the second hyperparameter analysis traced
\* through the grids built when that analysis started
C23_Witness ==
    /\ pipe.pc = "hyper"
    /\ pipe.run.stage = 2
    /\ pipe.run.calls = 2
    /\ pipe.run.likelihood.known
    /\ pipe.run.likelihood.pixelization.call = 2
    /\ pipe.run.likelihood.tracer.image_grid_collection = from_mask("hyper", 2)

\* what a fitness evaluation leaves alone in either kind of Run, and around it
SharedKept ==
    /\ pipe'.run.image = pipe.run.image
    /\ pipe'.run.image_grid_collection = pipe.run.image_grid_collection
    /\ pipe'.run.model_mapper = pipe.run.model_mapper
    /\ pipe'.run.analysis = pipe.run.analysis
    /\ pipe'.pixelization = pipe.pixelization
    /\ pipe'.instrumentation = pipe.instrumentation
    /\ pipe'.model_results = pipe.model_results
    /\ pipe'.hyperparameter_results = pipe.hyperparameter_results
    /\ pipe'.model_result = pipe.model_result

\* the entities a Run was given are the ones it still has
GivenKept ==
    /\ pipe.pc = "model" =>
         /\ pipe'.run.pixelization = pipe.run.pixelization
         /\ pipe'.run.instrumentation = pipe.run.instrumentation
    /\ pipe.pc = "hyper" =>
         /\ pipe'.run.lens_galaxies = pipe.run.lens_galaxies
         /\ pipe'.run.source_galaxies = pipe.run.source_galaxies

\* C24: a fitness evaluation changes nothing but the Run's recorded last
\* state: in a model analysis the Run's pixelization, instrumentation, image,
\* grid collection and model mapper are unchanged, and in a hyperparameter
\* analysis the Run's lens galaxies, source galaxies, image, grid collection
\* and model mapper are unchanged.
C24_FitnessKeepsGiven == [][Evaluates => (SharedKept /\ GivenKept)]_vars

\* after two fitness evaluations the model Run of the second stage still has
\* the pixelization the first hyperparameter analysis produced
C24_Witness ==
    /\ pipe.pc = "model"
    /\ pipe.run.stage = 2
    /\ pipe.run.calls = 2
    /\ pipe.run.lens_galaxies.call = 2
    /\ Len(pipe.hyperparameter_results) = 1
    /\ pipe.run.pixelization = pipe.hyperparameter_results[1].pixelization
    /\ pipe.run.pixelization.kind = "pixelization"

\* the Run holds entities of one evaluation with the likelihood of another
Mixed(run) ==
    /\ run.likelihood.known
    /\ \/ run.likelihood.tracer.lens_galaxies # run.lens_galaxies
       \/ run.likelihood.tracer.source_galaxies # run.source_galaxies
       \/ run.likelihood.pixelization # run.pixelization
       \/ run.likelihood.instrumentation # run.instrumentation

\* the likelihood was computed from what the evaluation of that number, and
\* no other, reconstructed on the Run
ScoreOf(likelihood, run, caller) ==
    /\ likelihood.known
    /\ run.analysis = "model" =>
         /\ likelihood.tracer.lens_galaxies.call = caller
         /\ likelihood.tracer.source_galaxies.call = caller
    /\ run.analysis = "hyper" =>
         /\ likelihood.pixelization.call = caller
         /\ likelihood.instrumentation.call = caller

\* the call has returned
HasReturned(caller) == concurrent.callers[caller].pc = "done"

\* C25: a Run is not safe to share between concurrent fitness evaluations.
\* With one Run per evaluation no state is reachable in which a Run holds the
\* entities of one evaluation with the likelihood of another, and every call
\* returns the score of its own evaluation; with two interleaved calls on one
\* Run such states are reachable (C25_Witness).
C25_OwnRunIsSafe ==
    ~concurrent.shared =>
      \A caller \in Callers :
        /\ ~Mixed(concurrent.runs[RunOf(concurrent.shared, caller)])
        /\ HasReturned(caller) =>
             /\ ScoreOf(concurrent.callers[caller].returned,
                        concurrent.runs[RunOf(concurrent.shared, caller)], caller)
             /\ concurrent.callers[caller].returned =
                    concurrent.runs[RunOf(concurrent.shared, caller)].likelihood

\* two calls on one Run have returned: the first was given the score of the
\* second, and the Run holds the entities of the first with the likelihood of
\* the second
C25_Witness ==
    /\ concurrent.shared
    /\ HasReturned(1) /\ HasReturned(2)
    /\ ScoreOf(concurrent.callers[1].returned, concurrent.runs[1], 2)
    /\ Mixed(concurrent.runs[1])
    /\ ScoreOf(concurrent.runs[1].likelihood, concurrent.runs[1], 2)
    /\ concurrent.runs[1].analysis = "model"
    /\ concurrent.runs[1].lens_galaxies.call = 1

\* C26: the ordered prior list an analysis hands to the optimizer contains
\* only priors attached by that analysis itself (its lens and source galaxy
\* priors, or its pixelization and instrumentation classes), also when several
\* analyses were constructed without an explicit model_mapper argument.
C26_OnlyOwnPriors ==
    constructed.optimizer.analysis # 0 =>
      \A k \in DOMAIN constructed.optimizer.priors :
          constructed.optimizer.priors[k].owner = constructed.optimizer.analysis

\* the same for the analyses that were given a model mapper of their own
OnlyOwnPriorsInOwnMapper ==
    (/\ constructed.optimizer.analysis # 0
     /\ constructed.analyses[constructed.optimizer.analysis].model_mapper > 2) =>
      \A k \in DOMAIN constructed.optimizer.priors :
          constructed.optimizer.priors[k].owner = constructed.optimizer.analysis

\* a step that is a failed add_class(name, cls) leaves the mapper and `priors` as they were
FailureKeeps ==
    (lastOp'.op = "add_class" /\ lastOp'.exc) =>
      /\ mapper' = mapper
      /\ priors(mapper', tuples', heap') = CurrentPriors
      /\ \A k \in DOMAIN CurrentPriors : heap'[CurrentPriors[k]] = heap[CurrentPriors[k]]

\* C27: if add_class(name, cls) fails because the config has no entry for
\* some constructor parameter, the mapper is left unchanged: no PriorModel is
\* stored under name, a PriorModel previously stored under name is still
\* there, and `priors` returns the same sequence as before the call.
C27_FailedAddClassKeepsMapper ==
    [][FailureKeeps]_vars

\* add_class("one", Light) failed for want of an entry for intensity, after
\* the two Priors of its centre had been made: the Profile stored under "one"
\* before is still there and `priors` lists its two Priors and no other
C27_Witness ==
    /\ lastOp.op = "add_class" /\ lastOp.exc /\ lastOp.name = "one"
    /\ config = ConfigFaulty
    /\ DOMAIN mapper = {"one"}
    /\ mapper["one"].cls = "Profile"
    /\ prior_number = 4
    /\ Len(CurrentPriors) = 2

\* the outcome the last lookup has on a Config that has read no file yet
OnFreshConfig ==
    Lookup(lookup.cls, lookup.attribute_name,
           get_for_nearest_ancestor({}, config, lookup.cls, lookup.attribute_name))

\* C28: the result of a Config lookup for (module, class name, attribute)
\* does not depend on which other modules' files the same Config object has
\* read before, and a class never resolves to an entry of a same-named class
\* declared in a different module.
C28_LookupIgnoresOtherModules ==
    CalledLookup =>
      /\ lookup = OnFreshConfig
      /\ lookup.found =>
           \E i \in DOMAIN family(lookup.cls) :
             \E e \in OwnEntries(family(lookup.cls)[i], lookup.attribute_name) :
                 lookup.arr = PriorArray(e)

\* no evaluation of the Run has succeeded and the Run holds what it was
\* constructed with
AsConstructed(run) ==
    /\ ~run.likelihood.known
    /\ run.analysis = "model" =>
         run.lens_galaxies = EmptyList /\ run.source_galaxies = EmptyList
    /\ run.analysis = "hyper" =>
         run.pixelization = NoneObject /\ run.instrumentation = NoneObject

\* C29: if a fitness evaluation fails after the model instances were
\* reconstructed (the tracer or the likelihood collaborator raises), the
\* Run's recorded entities and its recorded likelihood still come from one and
\* the same evaluation, the last successful one.
C29_FailureKeepsLastSuccessful ==
    pipe.pc = "raised" =>
      \/ AsConstructed(pipe.run)
      \/ pipe.run.likelihood.known /\ ~Mixed(pipe.run)

\* the entity is an instance a fitness evaluation of the hyperparameter
\* analysis of stage k reconstructed
RebuiltInStage(entity, kind, k) ==
    /\ entity # NoneObject
    /\ entity.kind = kind
    /\ entity.stage = k
    /\ entity.call >= 1

\* C30: every pixelization and instrumentation that MainPipeline.run passes
\* to a model analysis after the first stage is an instance reconstructed by a
\* fitness evaluation of the preceding hyperparameter analysis, never None,
\* also when the optimizer of that analysis returns without having called the
\* fitness function.
C30_NeverNoneAfterFirstStage ==
    \A i \in ModelCalls :
        pipe.calls[i].stage > 1 =>
          /\ RebuiltInStage(pipe.calls[i].pixelization, "pixelization",
                            pipe.calls[i].stage - 1)
          /\ RebuiltInStage(pipe.calls[i].instrumentation, "instrumentation",
                            pipe.calls[i].stage - 1)

\* the same for the stages whose hyperparameter optimizer called the fitness
\* function at least once
RebuiltWhenEvaluated ==
    \A i \in ModelCalls :
        (/\ pipe.calls[i].stage > 1
         /\ pipe.hyperparameter_results[pipe.calls[i].stage - 1].likelihood.known) =>
          /\ RebuiltInStage(pipe.calls[i].pixelization, "pixelization",
                            pipe.calls[i].stage - 1)
          /\ RebuiltInStage(pipe.calls[i].instrumentation, "instrumentation",
                            pipe.calls[i].stage - 1)

====
